---- MODULE Spec2Model ----
(***************************************************************************)
(* ngx-manager: the certificate lifecycle and the flows that tie it to the *)
(* nginx configuration (cli `generate`, NginxManager.add_site,             *)
(* SSLManager.obtain_certificate, generate-config.py reload_nginx).        *)
(*                                                                         *)
(* Strings that the code formats and splits are sequences of tokens, the   *)
(* colon being a token of its own.  Every external command (acme.sh,       *)
(* nginx, pgrep, pkill, openssl) answers "ok" (exit 0, with its effect),   *)
(* "fail" (non-zero exit, no effect) or "raise" (subprocess.run raises).   *)
(***************************************************************************)
EXTENDS Integers, Sequences, FiniteSets, TLC

\* ------------------------------------------------------------------ bounds
MaxVhosts == 2
\* seconds of wall-clock time that may pass during the runs
MaxClock == 3

\* ------------------------------------------------------------------ inputs
Domains == {<<"a">>, <<"b">>}
NamePool == <<"s1", "s2", "s3", "s4">>
SiteKeys == {<<NamePool[i]>> : i \in 1..Len(NamePool)}
FileKeys == SiteKeys \cup Domains
Outcomes == {"ok", "fail", "raise"}

\* cleanup: the one-second polls nginx is given to exit after the quit
GracePeriod == 30

\* days_threshold of _certificate_needs_renewal
DaysThreshold == 30

\* one vhosts.yml entry at position i of the list
VhostShapes(i) ==
    {[hasName |-> TRUE, name |-> <<NamePool[i]>>, domains |-> ds, ssl |-> s,
      type |-> IF ds[1] = <<"b">> THEN "proxy" ELSE "static",
      upstream |-> IF ds[1] = <<"b">> THEN "http://up" ELSE ""] :
        ds \in {<< <<"a">> >>, << <<"b">>, <<"a">> >>}, s \in BOOLEAN}
    \cup {[hasName |-> FALSE, name |-> <<NamePool[i]>>, domains |-> << <<"a">> >>,
           ssl |-> TRUE, type |-> "static", upstream |-> ""],
          [hasName |-> TRUE, name |-> <<NamePool[i]>>, domains |-> <<>>,
           ssl |-> TRUE, type |-> "proxy", upstream |-> "http://up"],
          [hasName |-> TRUE, name |-> <<NamePool[i]>>, domains |-> << <<"a">> >>,
           ssl |-> FALSE, type |-> "proxy", upstream |-> ""]}

VhostLists ==
    UNION {{s \in [1..n -> UNION {VhostShapes(i) : i \in 1..n}] :
                \A i \in 1..n : s[i] \in VhostShapes(i)} : n \in 0..MaxVhosts}

\* the certificate directory of one domain: the two files nginx is pointed at,
\* and what `openssl x509 -enddate` answers for the full chain
AbsentCert == [fullchain |-> "missing", privkey |-> "missing", enddate |-> "ok", days |-> 0]
IssuedCert == [fullchain |-> "ok", privkey |-> "ok", enddate |-> "ok", days |-> 90]
CertStates ==
    {AbsentCert,
     [fullchain |-> "ok", privkey |-> "ok", enddate |-> "ok", days |-> DaysThreshold + 1],
     [fullchain |-> "ok", privkey |-> "ok", enddate |-> "ok", days |-> DaysThreshold],
     [fullchain |-> "ok", privkey |-> "missing", enddate |-> "ok", days |-> DaysThreshold + 1]}

\* one generated site configuration file
NoFile == [template |-> "absent", domain |-> <<>>, backend |-> "", ssl |-> FALSE]

NoResult == [success |-> FALSE, error |-> <<"none">>]
Success == [success |-> TRUE, error |-> <<>>]
Failure(msg) == [success |-> FALSE, error |-> msg]

VARIABLES
    cmd, pc, report,
    vhosts, no_ssl, args,
    certs, nginxRunning, siteFiles,
    vhost_configs, ssl_domains, idx, ssl_success, ssl_errors, generated,
    odomain, ores, nginx_was_running, issue_rc, ridx, rres, rerr,
    attempted, failedNow, collected, written, reloadCmds, testRes,
    probeFailed, webrootIssued, saEntered, runningAtBegin, wrRc, nginxCmds, installRc,
    threshold, decision, consulted,
    retry_attempts, attempt, success_count, issueCalls, sleeps, ic_res, icOk, opensslRaised,
    clock, pass, clean_old, confFiles, files1,
    rn_res, renewRc, renewForce, rnOpenssl, rm_res, deregRc, res1, certs1,
    timeout, quitRc, killRc,
    file0, cli, exitCode, rcCalls,
    epc, shutdown_event, frames, started, finished,
    runs, ymlEdits

inputVars == <<vhosts, no_ssl, args>>
envVars == <<certs, nginxRunning, siteFiles>>
genVars == <<vhost_configs, ssl_domains, idx, ssl_success, ssl_errors, generated>>
obVars == <<odomain, ores, nginx_was_running, issue_rc>>
obGhost == <<probeFailed, webrootIssued, saEntered, runningAtBegin>>
obGhost2 == <<wrRc, nginxCmds, installRc>>
nrVars == <<threshold, decision, consulted>>
cmVars == <<retry_attempts, attempt, success_count, issueCalls, sleeps, ic_res, icOk,
            opensslRaised>>
gcVars == <<clock, pass, clean_old, confFiles, files1>>
\* SSLManager.renew_certificate and remove_certificate, entrypoint cleanup
mVars == <<rn_res, renewRc, renewForce, rnOpenssl, rm_res, deregRc, res1, certs1,
           timeout, quitRc, killRc>>
rnVars == <<rn_res, renewRc, renewForce, rnOpenssl>>
rmVars == <<rm_res, deregRc, res1, certs1>>
clVars == <<timeout, quitRc, killRc>>
xVars == <<nrVars, cmVars, gcVars, mVars>>
cliVars == <<cli, exitCode, rcCalls>>
epVars == <<epc, shutdown_event, frames, started, finished>>
regenVars == <<runs, ymlEdits>>
eVars == <<file0, cliVars, epVars, regenVars>>
runGhost == <<attempted, failedNow, collected, written, reloadCmds, testRes>>
rlVars == <<ridx, rres, rerr>>
vars == <<cmd, pc, report, inputVars, envVars, genVars, obVars, rlVars, obGhost, obGhost2,
          runGhost, xVars, eVars>>

\* ---------------------------------------------------------- pure functions
\* SSLManager._certificate_exists: only the full-chain file is looked at
certificate_exists(c) == c.fullchain # "missing"

\* variant: the boundary day is not counted as due
certificate_needs_renewal_lt(c, days_threshold) ==
    IF c.fullchain = "missing" THEN TRUE
    ELSE IF c.fullchain = "empty" \/ c.enddate = "exit1" THEN TRUE
    ELSE IF c.enddate = "nofield" THEN FALSE
    ELSE IF c.enddate = "baddate" THEN TRUE
    ELSE c.days < days_threshold

\* variant: every existing certificate counts as due
certificate_needs_renewal_due(c, days_threshold) == TRUE

\* SSLManager._certificate_needs_renewal, for an openssl that could be run
certificate_needs_renewal(c, days_threshold) ==
    IF c.fullchain = "missing" THEN TRUE
    ELSE IF c.fullchain = "empty" \/ c.enddate = "exit1" THEN TRUE
    ELSE IF c.enddate = "nofield" THEN FALSE
    ELSE IF c.enddate = "baddate" THEN TRUE
    ELSE c.days <= days_threshold

\* str.split(':')[0]
RECURSIVE FirstField(_)
FirstField(s) ==
    IF s = <<>> \/ Head(s) = ":" THEN <<>> ELSE <<Head(s)>> \o FirstField(Tail(s))

\* f"{domain}: {ssl_result['error']}"
error_msg(domain, error) == domain \o <<":", " ">> \o error

\* the backend of a vhost entry in generate's first pass
backend_of(v) == IF v.type = "proxy" /\ v.upstream # "" THEN v.upstream ELSE ""

\* generate's first pass: the effective site configs
RECURSIVE CollectConfigs(_)
CollectConfigs(vs) ==
    IF vs = <<>> THEN <<>>
    ELSE LET v == Head(vs) IN
         (IF v.hasName /\ v.domains # <<>>
             THEN <<[name |-> v.name, domain |-> v.domains[1],
                     backend |-> backend_of(v), ssl |-> v.ssl]>>
             ELSE <<>>) \o CollectConfigs(Tail(vs))

\* generate's first pass: the domains that need a certificate
\* variant: the ssl flag of an entry is not consulted
RECURSIVE CollectSslDomains_mut(_)
CollectSslDomains_mut(vs) ==
    IF vs = <<>> THEN <<>>
    ELSE LET v == Head(vs) IN
         (IF v.hasName /\ v.domains # <<>> THEN <<v.domains[1]>> ELSE <<>>)
             \o CollectSslDomains_mut(Tail(vs))

RECURSIVE CollectSslDomains(_)
CollectSslDomains(vs) ==
    IF vs = <<>> THEN <<>>
    ELSE LET v == Head(vs) IN
         (IF v.hasName /\ v.domains # <<>> /\ v.ssl THEN <<v.domains[1]>> ELSE <<>>)
             \o CollectSslDomains(Tail(vs))

\* variant: the error strings are not split at the colon
failed_domains_mut(errors) == {errors[i] : i \in 1..Len(errors)}

\* failed_domains = [error.split(':')[0] for error in ssl_errors]
failed_domains(errors) == {FirstField(errors[i]) : i \in 1..Len(errors)}

\* "Disable SSL for failed domains"
DisableFailed(configs, errors) ==
    [i \in 1..Len(configs) |->
        IF configs[i].domain \in failed_domains(errors)
            THEN [configs[i] EXCEPT !.ssl = FALSE] ELSE configs[i]]

\* "Disable SSL for all configs when --no-ssl is specified"
DisableAll(configs) ==
    [i \in 1..Len(configs) |->
        IF configs[i].ssl THEN [configs[i] EXCEPT !.ssl = FALSE] ELSE configs[i]]

\* ConfigGenerator._get_default_template_name
get_default_template_name(ssl, is_proxy) ==
    IF ssl /\ is_proxy THEN "proxy_ssl.conf.j2"
    ELSE IF ssl /\ ~is_proxy THEN "static_ssl.conf.j2"
    ELSE IF ~ssl /\ is_proxy THEN "proxy_http.conf.j2"
    ELSE "static_http.conf.j2"

\* ConfigGenerator.generate_site_config: the rendered text, as what decides it
generate_site_config(domain, backend, ssl) ==
    [template |-> get_default_template_name(ssl, backend # ""),
     domain |-> domain,
     backend |-> IF backend # "" THEN backend ELSE "http://localhost:8080",
     ssl |-> ssl]

\* the messages of the failure results
ErrStr == <<"OSError">>
ErrUnbound == <<"local variable 'nginx_was_running' referenced before assignment">>
ErrIssue == <<"Failed to obtain certificate", ":", " ", "stderr">>
ErrInstall == <<"Failed to install certificate", ":", " ", "stderr">>
ErrStandalone == <<"Failed to obtain certificate with nginx reload", ":", " ">> \o ErrStr

\* -------------------------------------------------- exception handlers
\* what the code can see raised: subprocess.run and the file system raise
\* OSError, check=True adds CalledProcessError, the unbound local of the
\* standalone handler is an UnboundLocalError
ExceptionClasses == {"OSError", "CalledProcessError", "UnboundLocalError"}

\* variant: obtain_certificate catches subprocess.CalledProcessError only
ObtainCatches_mut(e) == e = "CalledProcessError"

\* obtain_certificate: except Exception
ObtainCatches(e) == e \in ExceptionClasses

\* _obtain_with_nginx_reload: except Exception
StandaloneCatches(e) == e \in ExceptionClasses

\* _obtain_with_webroot: except (PermissionError, OSError) around the probe
ProbeCatches(e) == e = "OSError"

\* _install_certificate: except subprocess.CalledProcessError
InstallCatches(e) == e = "CalledProcessError"

MsgOf(e) == IF e = "UnboundLocalError" THEN ErrUnbound ELSE ErrStr

\* an exception that leaves obtain_certificate's try block: the result it
\* becomes, or (were it not caught) the caller's own handler ending the run
RaiseInObtain(e) ==
    /\ ores' = IF ObtainCatches(e) THEN Failure(MsgOf(e)) ELSE ores
    /\ pc' = IF ObtainCatches(e) THEN "ob_ret" ELSE "done"
    /\ report' = IF ObtainCatches(e) THEN report ELSE "failure"

ObtainReturns(r) ==
    /\ ores' = r
    /\ pc' = "ob_ret"
    /\ report' = report

\* ------------------------------------------- SSLManager.obtain_certificate
\* lines 78-89: the short-circuit on an existing certificate not due
ObtainCheck ==
    /\ pc = "ob_check"
    /\ \E openssl \in {"ok", "raise"} :
        LET c == certs[odomain] IN
        IF certificate_exists(c) /\ openssl = "raise"
            THEN RaiseInObtain("OSError")
        ELSE IF certificate_exists(c) /\ ~certificate_needs_renewal(c, DaysThreshold)
            THEN ObtainReturns(Success)
        ELSE /\ pc' = "wr_probe"
             /\ UNCHANGED <<ores, report>>
    /\ UNCHANGED <<eVars, cmd, xVars, obGhost2, inputVars, envVars, genVars, odomain, nginx_was_running,
                   issue_rc, rlVars, obGhost, runGhost>>

\* variant: the probe's outcome is not consulted
AfterProbe_mut(e) == "wr_issue"

\* where _obtain_with_webroot goes after the write-and-delete probe
AfterProbe(e) == IF e = "none" THEN "wr_issue"
                 ELSE IF ProbeCatches(e) THEN "sa_running" ELSE "raise"

\* _obtain_with_webroot lines 112-126: mkdir, write the probe file, unlink it
WebrootProbe ==
    /\ pc = "wr_probe"
    /\ \E e \in {"none", "OSError"} :
        /\ probeFailed' = (e # "none")
        /\ IF AfterProbe(e) = "raise"
              THEN RaiseInObtain(e)
              ELSE pc' = AfterProbe(e) /\ UNCHANGED <<ores, report>>
    /\ UNCHANGED <<eVars, cmd, xVars, obGhost2, inputVars, envVars, genVars, odomain, nginx_was_running,
                   issue_rc, rlVars, webrootIssued, saEntered, runningAtBegin, runGhost>>

\* variant: the standalone attempt is made whatever the webroot issue answered
AfterWebrootIssue_mut(o) == "sa_running"

\* lines 144-148: a webroot issue that exited non-zero falls back to standalone
AfterWebrootIssue(o) == IF o = "ok" THEN "wr_install" ELSE "sa_running"

\* _obtain_with_webroot lines 128-146: acme.sh --issue --webroot
WebrootIssue ==
    /\ pc = "wr_issue"
    /\ webrootIssued' = TRUE
    /\ \E o \in Outcomes :
        /\ wrRc' = o
        /\ IF o = "raise" THEN RaiseInObtain("OSError")
           ELSE /\ pc' = AfterWebrootIssue(o)
                /\ UNCHANGED <<ores, report>>
    /\ UNCHANGED <<eVars, cmd, xVars, nginxCmds, installRc, inputVars, envVars, genVars, odomain, nginx_was_running,
                   issue_rc, rlVars, probeFailed, saEntered, runningAtBegin, runGhost>>

\* _install_certificate (acme.sh --install-cert, check=True) as called from
\* _obtain_with_webroot lines 148-157
WebrootInstall ==
    /\ pc = "wr_install"
    /\ \E o \in Outcomes :
        /\ installRc' = o
        /\ certs' = IF o = "ok" THEN [certs EXCEPT ![odomain] = IssuedCert] ELSE certs
        /\ IF o = "ok" THEN ObtainReturns(Success)
           ELSE IF o = "fail" /\ InstallCatches("CalledProcessError")
               THEN ObtainReturns(Failure(ErrInstall))
           ELSE RaiseInObtain(IF o = "fail" THEN "CalledProcessError" ELSE "OSError")
    /\ UNCHANGED <<eVars, cmd, xVars, wrRc, nginxCmds, inputVars, nginxRunning, siteFiles, genVars, odomain,
                   nginx_was_running, issue_rc, rlVars, obGhost, runGhost>>

\* ---------------------------------- SSLManager._obtain_with_nginx_reload
\* an exception inside the try block of _obtain_with_nginx_reload
RaiseInStandalone(e) ==
    IF StandaloneCatches(e)
        THEN pc' = "sa_except" /\ UNCHANGED <<ores, report>>
        ELSE RaiseInObtain(e)

\* lines 162-165 with _is_nginx_running (pgrep -f nginx)
StandaloneIsRunning ==
    /\ pc = "sa_running"
    /\ saEntered' = TRUE
    /\ runningAtBegin' = nginxRunning
    /\ \E o \in {"ok", "raise"} :
        IF o = "raise"
            THEN RaiseInStandalone("OSError") /\ UNCHANGED nginx_was_running
            ELSE /\ nginx_was_running' = IF nginxRunning THEN "yes" ELSE "no"
                 /\ pc' = IF nginxRunning THEN "sa_quit" ELSE "sa_issue"
                 /\ UNCHANGED <<ores, report>>
    /\ UNCHANGED <<eVars, cmd, xVars, obGhost2, inputVars, envVars, genVars, odomain, issue_rc, rlVars,
                   probeFailed, webrootIssued, runGhost>>

\* lines 166-168: nginx -s quit
StandaloneQuit ==
    /\ pc = "sa_quit"
    /\ nginxCmds' = TRUE
    /\ \E o \in Outcomes :
        /\ nginxRunning' = IF o = "ok" THEN FALSE ELSE nginxRunning
        /\ IF o = "raise" THEN RaiseInStandalone("OSError")
           ELSE /\ pc' = IF o = "ok" THEN "sa_issue" ELSE "sa_pkill"
                /\ UNCHANGED <<ores, report>>
    /\ UNCHANGED <<eVars, cmd, xVars, wrRc, installRc, inputVars, certs, siteFiles, genVars, odomain,
                   nginx_was_running, issue_rc, rlVars, obGhost, runGhost>>

\* lines 169-174: pkill -f nginx, its exit status not looked at
StandalonePkill ==
    /\ pc = "sa_pkill"
    /\ nginxCmds' = TRUE
    /\ \E o \in Outcomes :
        /\ nginxRunning' = IF o = "ok" THEN FALSE ELSE nginxRunning
        /\ IF o = "raise" THEN RaiseInStandalone("OSError")
           ELSE pc' = "sa_issue" /\ UNCHANGED <<ores, report>>
    /\ UNCHANGED <<eVars, cmd, xVars, wrRc, installRc, inputVars, certs, siteFiles, genVars, odomain,
                   nginx_was_running, issue_rc, rlVars, obGhost, runGhost>>

\* lines 195-200: the result of a failed standalone issuance, else on to install
AfterStandaloneIssue(rc) ==
    IF rc # "ok"
        THEN ObtainReturns(Failure(ErrIssue))
        ELSE pc' = "sa_install" /\ UNCHANGED <<ores, report>>

\* lines 176-189: acme.sh --issue --standalone --httpport 80
StandaloneIssue ==
    /\ pc = "sa_issue"
    /\ \E o \in Outcomes :
        /\ issue_rc' = o
        /\ IF o = "raise" THEN RaiseInStandalone("OSError")
           ELSE IF nginx_was_running = "yes"
               THEN pc' = "sa_restart" /\ UNCHANGED <<ores, report>>
           ELSE AfterStandaloneIssue(o)
    /\ UNCHANGED <<eVars, cmd, xVars, obGhost2, inputVars, envVars, genVars, odomain, nginx_was_running,
                   rlVars, obGhost, runGhost>>

\* lines 191-193: subprocess.run(['nginx']), its exit status not looked at
StandaloneRestart ==
    /\ pc = "sa_restart"
    /\ nginxCmds' = TRUE
    /\ \E o \in Outcomes :
        /\ nginxRunning' = IF o = "ok" THEN TRUE ELSE nginxRunning
        /\ IF o = "raise" THEN RaiseInStandalone("OSError")
           ELSE AfterStandaloneIssue(issue_rc)
    /\ UNCHANGED <<eVars, cmd, xVars, wrRc, installRc, inputVars, certs, siteFiles, genVars, odomain,
                   nginx_was_running, issue_rc, rlVars, obGhost, runGhost>>

\* lines 202-211: _install_certificate after a standalone issuance
StandaloneInstall ==
    /\ pc = "sa_install"
    /\ \E o \in Outcomes :
        /\ installRc' = o
        /\ certs' = IF o = "ok" THEN [certs EXCEPT ![odomain] = IssuedCert] ELSE certs
        /\ IF o = "ok" THEN ObtainReturns(Success)
           ELSE IF o = "fail" /\ InstallCatches("CalledProcessError")
               THEN ObtainReturns(Failure(ErrInstall))
           ELSE RaiseInStandalone(IF o = "fail" THEN "CalledProcessError" ELSE "OSError")
    /\ UNCHANGED <<eVars, cmd, xVars, wrRc, nginxCmds, inputVars, nginxRunning, siteFiles, genVars, odomain,
                   nginx_was_running, issue_rc, rlVars, obGhost, runGhost>>

\* lines 213-221: the handler; nginx_was_running is unbound when
\* _is_nginx_running itself raised
StandaloneExcept ==
    /\ pc = "sa_except"
    /\ IF nginx_was_running = "unset"
          THEN RaiseInObtain("UnboundLocalError") /\ UNCHANGED <<nginxRunning, nginxCmds>>
       ELSE IF nginx_was_running = "yes"
          THEN /\ nginxCmds' = TRUE
               /\ \E o \in Outcomes :
                    /\ nginxRunning' = IF o = "ok" THEN TRUE ELSE nginxRunning
                    /\ IF o = "raise" THEN RaiseInObtain("OSError")
                       ELSE ObtainReturns(Failure(ErrStandalone))
       ELSE ObtainReturns(Failure(ErrStandalone)) /\ UNCHANGED <<nginxRunning, nginxCmds>>
    /\ UNCHANGED <<eVars, cmd, xVars, wrRc, installRc, inputVars, certs, siteFiles, genVars, odomain,
                   nginx_was_running, issue_rc, rlVars, obGhost, runGhost>>

Obtain ==
    \/ ObtainCheck \/ WebrootProbe \/ WebrootIssue \/ WebrootInstall
    \/ StandaloneIsRunning \/ StandaloneQuit \/ StandalonePkill
    \/ StandaloneIssue \/ StandaloneRestart \/ StandaloneInstall
    \/ StandaloneExcept

\* the locals of a finished obtain_certificate call are gone
ObtainFrameDropped ==
    /\ odomain' = <<>>
    /\ ores' = NoResult
    /\ nginx_was_running' = "unset"
    /\ issue_rc' = "none"
    /\ probeFailed' = FALSE
    /\ webrootIssued' = FALSE
    /\ saEntered' = FALSE
    /\ runningAtBegin' = FALSE
    /\ wrRc' = "none"
    /\ nginxCmds' = FALSE
    /\ installRc' = "none"

\* the entry into obtain_certificate(domain)
CallObtain(domain) ==
    /\ pc' = "ob_check"
    /\ odomain' = domain
    /\ ores' = NoResult
    /\ nginx_was_running' = "unset"
    /\ issue_rc' = "none"
    /\ probeFailed' = FALSE
    /\ webrootIssued' = FALSE
    /\ saEntered' = FALSE
    /\ runningAtBegin' = FALSE
    /\ wrRc' = "none"
    /\ nginxCmds' = FALSE
    /\ installRc' = "none"
    /\ attempted' = Append(attempted, domain)

\* --------------------------------------------------------- cli generate
NoArgs == [domain |-> <<>>, backend |-> "", ssl |-> FALSE, force |-> FALSE]
NoFiles == [k \in FileKeys |-> NoFile]

\* sys.exit(code), or the outer "except Exception" handler's sys.exit(1)
Exit(r) ==
    /\ pc' = "done"
    /\ report' = r

\* variant: the outcome of nginx -t is not consulted
test_nginx_config_mut(o) == TRUE

\* NginxManager._test_nginx_config: check=True, CalledProcessError -> False
test_nginx_config(o) == o = "ok"

\* NginxManager (core/manager.py) defines no setup_auto_renewal method
has_setup_auto_renewal == FALSE

\* lines 361-391: the first pass over vhosts
GenCollect ==
    /\ cmd = "generate" /\ pc = "g_collect"
    /\ vhost_configs' = CollectConfigs(vhosts)
    /\ ssl_domains' = CollectSslDomains(vhosts)
    /\ collected' = CollectConfigs(vhosts)
    /\ pc' = "g_gate"
    /\ UNCHANGED <<eVars, cmd, xVars, obGhost2, report, inputVars, envVars, idx, ssl_success, ssl_errors,
                   generated, obVars, rlVars, obGhost, attempted, failedNow, written,
                   reloadCmds, testRes>>

\* line 394: if ssl_domains and not no_ssl
GenCertPhase ==
    /\ cmd = "generate" /\ pc = "g_gate"
    /\ ssl_domains # <<>> /\ ~no_ssl
    /\ ssl_success' = 0
    /\ ssl_errors' = <<>>
    /\ idx' = 1
    /\ pc' = "g_loop"
    /\ UNCHANGED <<eVars, cmd, xVars, obGhost2, report, inputVars, envVars, vhost_configs, ssl_domains,
                   generated, obVars, rlVars, obGhost, runGhost>>

\* lines 435-441: elif ssl_domains and no_ssl
GenNoSsl ==
    /\ cmd = "generate" /\ pc = "g_gate"
    /\ ssl_domains # <<>> /\ no_ssl
    /\ vhost_configs' = DisableAll(vhost_configs)
    /\ idx' = 1
    /\ pc' = "g_write"
    /\ UNCHANGED <<eVars, cmd, xVars, obGhost2, report, inputVars, envVars, ssl_domains, ssl_success,
                   ssl_errors, generated, obVars, rlVars, obGhost, runGhost>>

\* neither branch: no SSL domain was collected
GenNoCerts ==
    /\ cmd = "generate" /\ pc = "g_gate"
    /\ ssl_domains = <<>>
    /\ idx' = 1
    /\ pc' = "g_write"
    /\ UNCHANGED <<eVars, cmd, xVars, obGhost2, report, inputVars, envVars, vhost_configs, ssl_domains,
                   ssl_success, ssl_errors, generated, obVars, rlVars, obGhost, runGhost>>

\* lines 399-401: for domain in ssl_domains: obtain_certificate(domain)
GenObtainCall ==
    /\ cmd = "generate" /\ pc = "g_loop"
    /\ idx <= Len(ssl_domains)
    /\ CallObtain(ssl_domains[idx])
    /\ UNCHANGED <<eVars, cmd, xVars, report, inputVars, envVars, genVars, rlVars, failedNow,
                   collected, written, reloadCmds, testRes>>

\* lines 402-408: count the success or record the error
GenObtainResult ==
    /\ cmd = "generate" /\ pc = "ob_ret"
    /\ IF ores.success
          THEN /\ ssl_success' = ssl_success + 1
               /\ UNCHANGED <<ssl_errors, failedNow>>
          ELSE /\ ssl_errors' = Append(ssl_errors, error_msg(odomain, ores.error))
               /\ failedNow' = failedNow \cup {odomain}
               /\ UNCHANGED ssl_success
    /\ idx' = idx + 1
    /\ pc' = "g_loop"
    /\ ObtainFrameDropped
    /\ UNCHANGED <<eVars, cmd, xVars, report, inputVars, envVars, vhost_configs, ssl_domains,
                   generated, rlVars, attempted, collected, written, reloadCmds, testRes>>

\* lines 410-433: report, ask whether to go on when interactive, then
\* disable SSL for the failed domains
GenDowngrade ==
    /\ cmd = "generate" /\ pc = "g_loop"
    /\ idx > Len(ssl_domains)
    /\ \E auto_confirm \in BOOLEAN, isatty \in BOOLEAN, confirm \in BOOLEAN :
        IF ssl_errors # <<>> /\ ~auto_confirm /\ isatty /\ ~confirm
            THEN Exit("failure") /\ UNCHANGED <<vhost_configs, idx>>
            ELSE /\ vhost_configs' = DisableFailed(vhost_configs, ssl_errors)
                 /\ idx' = 1
                 /\ pc' = "g_write"
                 /\ UNCHANGED report
    /\ UNCHANGED <<eVars, cmd, xVars, obGhost2, inputVars, envVars, ssl_domains, ssl_success, ssl_errors,
                   generated, obVars, rlVars, obGhost, runGhost>>

\* lines 447-464: render and write one site's file; an exception skips the site
GenWrite ==
    /\ cmd = "generate" /\ pc = "g_write"
    /\ idx <= Len(vhost_configs)
    /\ \E o \in {"ok", "raise"} :
        LET config == vhost_configs[idx] IN
        IF o = "ok"
            THEN /\ siteFiles' = [siteFiles EXCEPT ![config.name] =
                        generate_site_config(config.domain, config.backend, config.ssl)]
                 /\ written' = written \cup {config.name}
                 /\ generated' = generated + 1
            ELSE UNCHANGED <<siteFiles, written, generated>>
    /\ idx' = idx + 1
    /\ UNCHANGED <<eVars, cmd, xVars, obGhost2, pc, report, inputVars, certs, nginxRunning, vhost_configs,
                   ssl_domains, ssl_success, ssl_errors, obVars, rlVars, obGhost,
                   attempted, failedNow, collected, reloadCmds, testRes>>

\* lines 468-474: nginx -t; sys.exit(1) when it fails
GenTest ==
    /\ cmd = "generate" /\ pc = "g_write"
    /\ idx > Len(vhost_configs)
    /\ \E o \in Outcomes :
        /\ testRes' = o
        /\ IF o = "raise" THEN Exit("failure")
           ELSE IF test_nginx_config(o) THEN pc' = "g_renewal" /\ UNCHANGED report
           ELSE Exit("failure")
    /\ UNCHANGED <<eVars, cmd, xVars, obGhost2, inputVars, envVars, genVars, obVars, rlVars, obGhost,
                   attempted, failedNow, collected, written, reloadCmds>>

\* lines 476-488: manager.setup_auto_renewal('daily') for an SSL run, and the
\* end of the command
GenRenewal ==
    /\ cmd = "generate" /\ pc = "g_renewal"
    /\ IF ssl_domains # <<>> /\ ~no_ssl /\ ~has_setup_auto_renewal
          THEN Exit("failure")
          ELSE Exit("success")
    /\ UNCHANGED <<eVars, cmd, xVars, obGhost2, inputVars, envVars, genVars, obVars, rlVars, obGhost, runGhost>>

Generate ==
    \/ GenCollect \/ GenCertPhase \/ GenNoSsl \/ GenNoCerts \/ GenObtainCall
    \/ GenObtainResult \/ GenDowngrade \/ GenWrite \/ GenTest \/ GenRenewal

InitRun ==
    /\ report = "none"
    /\ vhost_configs = <<>> /\ ssl_domains = <<>> /\ idx = 1
    /\ ssl_success = 0 /\ ssl_errors = <<>> /\ generated = 0
    /\ odomain = <<>> /\ ores = NoResult /\ nginx_was_running = "unset"
    /\ issue_rc = "none" /\ ridx = 1 /\ rres = "none" /\ rerr = <<>>
    /\ attempted = <<>> /\ failedNow = {} /\ collected = <<>> /\ written = {}
    /\ reloadCmds = 0 /\ testRes = "none"
    /\ probeFailed = FALSE /\ webrootIssued = FALSE /\ saEntered = FALSE
    /\ runningAtBegin = FALSE /\ wrRc = "none" /\ nginxCmds = FALSE
    /\ installRc = "none"

\* the variables of the operations that are not the one being run
NrIdle == threshold = 0 /\ decision = "none" /\ consulted = FALSE
CmIdle ==
    /\ retry_attempts = 0 /\ attempt = 0 /\ success_count = 0
    /\ issueCalls = 0 /\ sleeps = 0 /\ ic_res = "none"
    /\ icOk = FALSE /\ opensslRaised = FALSE
MIdle ==
    /\ rn_res = "none" /\ renewRc = "none" /\ renewForce = "none" /\ rnOpenssl = "none"
    /\ rm_res = "none" /\ deregRc = "none" /\ res1 = "none" /\ certs1 = <<>>
    /\ timeout = 0 /\ quitRc = "none" /\ killRc = "none"
CliIdle == cli = "none" /\ exitCode = "none" /\ rcCalls = 0
EpIdle ==
    /\ epc = "none" /\ shutdown_event = FALSE /\ frames = <<>>
    /\ started = 0 /\ finished = 0
RegenIdle == runs = <<>> /\ ymlEdits = 0
EIdle == CliIdle /\ EpIdle /\ RegenIdle
GcIdle == clock = 0 /\ pass = 0 /\ clean_old = FALSE /\ confFiles = <<>> /\ files1 = <<>>

InitGenerate ==
    /\ cmd = "generate" /\ pc = "g_collect"
    /\ vhosts \in VhostLists
    /\ no_ssl \in BOOLEAN
    /\ args = NoArgs
    /\ certs \in [Domains -> CertStates]
    /\ nginxRunning \in BOOLEAN
    /\ siteFiles = NoFiles
    /\ InitRun /\ EIdle /\ file0 = NoFile /\ NrIdle /\ CmIdle /\ GcIdle /\ MIdle

NextGenerate == Generate \/ Obtain
SpecGenerate == InitGenerate /\ [][NextGenerate]_vars

\* ------------------------------------------- NginxManager.reload_nginx
\* the three commands, in the order tried
ReloadCommands == <<"nginx -s reload", "systemctl reload nginx", "service nginx reload">>

\* lines 317-327: which answers of a command make the loop go on to the next
\* one: CalledProcessError and FileNotFoundError
ReloadContinues(o) == o \in {"fail", "notfound"}

\* lines 322 and 325: last_error, overwritten by every failing command
last_error(i, o) ==
    <<ReloadCommands[i], ":", " ", IF o = "notfound" THEN "command not found" ELSE "stderr">>

\* line 332: the error of the failure result
ErrReload(last) == <<"Failed to reload nginx. Last error", ":", " ">> \o last

\* variant: the reload's result is not looked at by the caller
result_after_reload_mut(r) == "success"

\* add_site lines 138-149, remove_site 175-185, renew_certificates 246-251:
\* `if not reload_result['success']` returns a failure
result_after_reload(r) == IF r = "ok" THEN "success" ELSE "failure"

\* one command of the loop, then lines 329-341 when the loop ends
ReloadStep ==
    /\ pc = "rl_cmd"
    /\ reloadCmds' = reloadCmds + 1
    /\ \E o \in {"ok", "fail", "notfound", "raise"} :
        IF o = "ok" THEN rres' = "ok" /\ pc' = "rl_ret" /\ UNCHANGED <<ridx, rerr>>
        ELSE IF ReloadContinues(o) /\ ridx < Len(ReloadCommands)
            THEN ridx' = ridx + 1 /\ UNCHANGED <<pc, rres, rerr>>
        ELSE /\ rres' = "fail" /\ pc' = "rl_ret" /\ UNCHANGED ridx
             /\ rerr' = IF ReloadContinues(o) THEN ErrReload(last_error(ridx, o)) ELSE ErrStr
    /\ UNCHANGED <<eVars, cmd, xVars, obGhost2, report, inputVars, envVars, genVars, obVars, obGhost,
                   attempted, failedNow, collected, written, testRes>>

\* ------------------------------------------------- NginxManager.add_site
\* variant: an existing file never refuses the call
already_exists_mut(file, force) == FALSE

\* lines 100-104: `if config_file.exists() and not force`
already_exists(file, force) == file # NoFile /\ ~force

\* lines 98-119: the existence check, the rendering and writing of the
\* site's file, then the certificate when ssl
AddSiteStart ==
    /\ cmd = "add_site" /\ pc = "a_start"
    /\ \E o \in {"ok", "raise"} :
        IF already_exists(siteFiles[args.domain], args.force)
            THEN Exit("failure")
                 /\ UNCHANGED <<siteFiles, written, obVars, obGhost, obGhost2, attempted>>
        ELSE IF o = "raise"
            THEN Exit("failure")
                 /\ UNCHANGED <<siteFiles, written, obVars, obGhost, obGhost2, attempted>>
        ELSE /\ siteFiles' = [siteFiles EXCEPT ![args.domain] =
                    generate_site_config(args.domain, args.backend, args.ssl)]
             /\ written' = written \cup {args.domain}
             /\ report' = report
             /\ IF args.ssl
                   THEN CallObtain(args.domain)
                   ELSE pc' = "a_test" /\ UNCHANGED <<obVars, obGhost, obGhost2, attempted>>
    /\ UNCHANGED <<eVars, cmd, xVars, inputVars, certs, nginxRunning, genVars, rlVars, failedNow,
                   collected, reloadCmds, testRes>>

\* lines 120-126: a failed certificate removes the file and ends the call
AddSiteObtainResult ==
    /\ cmd = "add_site" /\ pc = "ob_ret"
    /\ IF ~ores.success
          THEN /\ siteFiles' = [siteFiles EXCEPT ![args.domain] = NoFile]
               /\ failedNow' = failedNow \cup {odomain}
               /\ Exit("failure")
          ELSE /\ pc' = "a_test"
               /\ UNCHANGED <<siteFiles, failedNow, report>>
    /\ ObtainFrameDropped
    /\ UNCHANGED <<eVars, cmd, xVars, inputVars, certs, nginxRunning, genVars, rlVars, attempted,
                   collected, written, reloadCmds, testRes>>

\* lines 128-137: nginx -t; a failed test removes the file and ends the call,
\* a passed one goes on to reload_nginx
AddSiteTest ==
    /\ cmd = "add_site" /\ pc = "a_test"
    /\ \E o \in Outcomes :
        /\ testRes' = o
        /\ IF o = "raise"
              THEN Exit("failure") /\ UNCHANGED <<siteFiles, ridx>>
           ELSE IF test_nginx_config(o)
              THEN pc' = "rl_cmd" /\ ridx' = 1 /\ UNCHANGED <<siteFiles, report>>
           ELSE /\ siteFiles' = [siteFiles EXCEPT ![args.domain] = NoFile]
                /\ Exit("failure")
                /\ UNCHANGED ridx
    /\ UNCHANGED <<eVars, cmd, xVars, obGhost2, inputVars, certs, nginxRunning, genVars, obVars, rres, rerr, obGhost,
                   attempted, failedNow, collected, written, reloadCmds>>

\* lines 138-149: the result of the reload decides the result of the call
AddSiteReloadResult ==
    /\ cmd = "add_site" /\ pc = "rl_ret"
    /\ Exit(result_after_reload(rres))
    /\ UNCHANGED <<eVars, cmd, xVars, obGhost2, inputVars, envVars, genVars, obVars, rlVars, obGhost, runGhost>>

AddSite == AddSiteStart \/ AddSiteObtainResult \/ AddSiteTest \/ AddSiteReloadResult

InitAddSite ==
    /\ cmd = "add_site" /\ pc = "a_start"
    /\ vhosts = <<>> /\ no_ssl = FALSE
    /\ args \in [domain : Domains, backend : {"", "http://up"}, ssl : BOOLEAN,
                 force : BOOLEAN]
    /\ certs \in {c \in [Domains -> CertStates] :
                    \A d \in Domains : d # args.domain => c[d] = AbsentCert}
    /\ nginxRunning \in BOOLEAN
    /\ siteFiles \in {NoFiles,
                      [NoFiles EXCEPT ![args.domain] =
                          generate_site_config(args.domain, "", FALSE)]}
    /\ file0 = siteFiles[args.domain]
    /\ InitRun /\ EIdle /\ NrIdle /\ CmIdle /\ GcIdle /\ MIdle

\* -------------------------------------- generate-config.py reload_nginx
\* lines 193-197: nginx -t, its exit status looked at
ScriptTest ==
    /\ cmd = "reload_nginx" /\ pc = "gc_test"
    /\ \E o \in Outcomes :
        /\ testRes' = o
        /\ IF o = "ok" THEN pc' = "gc_reload" /\ UNCHANGED report
           ELSE Exit("failure")
    /\ UNCHANGED <<eVars, cmd, xVars, obGhost2, inputVars, envVars, genVars, obVars, rlVars, obGhost,
                   attempted, failedNow, collected, written, reloadCmds>>

\* lines 199-210: nginx -s reload, and what the function returns
ScriptReload ==
    /\ cmd = "reload_nginx" /\ pc = "gc_reload"
    /\ reloadCmds' = reloadCmds + 1
    /\ \E o \in Outcomes : Exit(IF o = "ok" THEN "success" ELSE "failure")
    /\ UNCHANGED <<eVars, cmd, xVars, obGhost2, inputVars, envVars, genVars, obVars, rlVars, obGhost,
                   attempted, failedNow, collected, written, testRes>>

Script == ScriptTest \/ ScriptReload

InitScript ==
    /\ cmd = "reload_nginx" /\ pc = "gc_test"
    /\ vhosts = <<>> /\ no_ssl = FALSE /\ args = NoArgs
    /\ certs \in [Domains -> CertStates]
    /\ nginxRunning \in BOOLEAN
    /\ siteFiles = NoFiles
    /\ InitRun /\ EIdle /\ file0 = NoFile /\ NrIdle /\ CmIdle /\ GcIdle /\ MIdle

\* ------------------------------- SSLCertificateManager.get_ssl_domains
\* cert_manager.py lines 328-335
RECURSIVE get_ssl_domains(_)
get_ssl_domains(vs) ==
    IF vs = <<>> THEN <<>>
    ELSE LET vhost == Head(vs) IN
         (IF vhost.ssl /\ vhost.domains # <<>> THEN <<vhost.domains[1]>> ELSE <<>>)
             \o get_ssl_domains(Tail(vs))

GetSslDomains ==
    /\ cmd = "get_ssl_domains" /\ pc = "cm_domains"
    /\ ssl_domains' = get_ssl_domains(vhosts)
    /\ Exit("success")
    /\ UNCHANGED <<eVars, cmd, xVars, obGhost2, inputVars, envVars, vhost_configs, idx, ssl_success,
                   ssl_errors, generated, obVars, rlVars, obGhost, runGhost>>

InitGetSslDomains ==
    /\ cmd = "get_ssl_domains" /\ pc = "cm_domains"
    /\ vhosts \in VhostLists
    /\ no_ssl = FALSE /\ args = NoArgs
    /\ certs = [d \in Domains |-> AbsentCert]
    /\ nginxRunning = FALSE
    /\ siteFiles = NoFiles
    /\ InitRun /\ EIdle /\ file0 = NoFile /\ NrIdle /\ CmIdle /\ GcIdle /\ MIdle

\* ------------------------------------ the needs-renewal checks, on their own
\* a certificate directory as the checks can find it: either file missing,
\* empty or present, and openssl exiting non-zero, printing no notAfter field,
\* printing a date that does not parse, or printing a good date
RenewalInputs ==
    [fullchain : {"missing", "empty", "ok"}, privkey : {"missing", "ok"},
     enddate : {"ok", "exit1", "nofield", "baddate"}, days : {-1, 5, 6, 10, 30, 31}]

\* SSLCertificateManager.cert_exists: both files exist
cert_exists(c) == c.fullchain # "missing" /\ c.privkey # "missing"

\* SSLCertificateManager.cert_needs_renewal: every exception means True
cert_needs_renewal(c, renewal_days, openssl) ==
    IF c.fullchain = "missing" THEN TRUE
    ELSE IF openssl = "raise" \/ c.fullchain = "empty" \/ c.enddate # "ok" THEN TRUE
    ELSE c.days <= renewal_days

\* SSLManager._certificate_needs_renewal(domain, days_threshold) called alone
NeedsRenewal ==
    /\ cmd = "needs_renewal" /\ pc = "nr_call"
    /\ \E openssl \in {"ok", "raise"} :
        LET c == certs[args.domain] IN
        /\ consulted' = (c.fullchain # "missing")
        /\ decision' = IF c.fullchain # "missing" /\ openssl = "raise" THEN "raise"
                       ELSE IF certificate_needs_renewal(c, threshold) THEN "true"
                       ELSE "false"
    /\ Exit("success")
    /\ UNCHANGED <<eVars, cmd, threshold, cmVars, gcVars, mVars, obGhost2, inputVars, envVars, genVars,
                   obVars, rlVars, obGhost, runGhost>>

\* SSLCertificateManager.cert_needs_renewal(domain) called alone
CmNeedsRenewal ==
    /\ cmd = "cert_needs_renewal" /\ pc = "nr_call"
    /\ \E openssl \in {"ok", "raise"} :
        LET c == certs[args.domain] IN
        /\ consulted' = (c.fullchain # "missing")
        /\ decision' = IF cert_needs_renewal(c, threshold, openssl) THEN "true" ELSE "false"
    /\ Exit("success")
    /\ UNCHANGED <<eVars, cmd, threshold, cmVars, gcVars, mVars, obGhost2, inputVars, envVars, genVars,
                   obVars, rlVars, obGhost, runGhost>>

InitNeedsRenewal ==
    /\ cmd \in {"needs_renewal", "cert_needs_renewal"} /\ pc = "nr_call"
    /\ vhosts = <<>> /\ no_ssl = FALSE
    /\ args = [NoArgs EXCEPT !.domain = <<"a">>]
    /\ certs \in {[d \in Domains |-> IF d = <<"a">> THEN c ELSE AbsentCert] :
                    c \in RenewalInputs}
    /\ nginxRunning = FALSE
    /\ siteFiles = NoFiles
    /\ threshold \in {5, DaysThreshold}
    /\ decision = "none" /\ consulted = FALSE
    /\ InitRun /\ EIdle /\ file0 = NoFile /\ CmIdle /\ GcIdle /\ MIdle

\* ------------------- SSLCertificateManager.check_and_issue_all_certs
\* 'retry_attempts': 3 of get_default_ssl_config
DefaultRetryAttempts == 3

\* vhosts.yml for the batch: entries with a name and domains
CmVhostLists ==
    {vs \in VhostLists : \A i \in 1..Len(vs) : vs[i].hasName /\ vs[i].domains # <<>>}

\* the certificate directories the batch starts from: none, a complete
\* certificate not due, a full chain without its key
CmCertStates ==
    {c \in CertStates : c.fullchain = "missing" \/ c.days > DaysThreshold}

\* issue_cert's locals are gone when its result has been used
IssueFrameDropped ==
    /\ attempt' = 0 /\ issueCalls' = 0 /\ sleeps' = 0 /\ ic_res' = "none"
    /\ icOk' = FALSE /\ opensslRaised' = FALSE

\* lines 345-352: the domains of the batch
CheckAllStart ==
    /\ cmd = "check_and_issue" /\ pc = "ci_start"
    /\ ssl_domains' = get_ssl_domains(vhosts)
    /\ idx' = 1
    /\ success_count' = 0
    /\ IF get_ssl_domains(vhosts) = <<>>
          THEN Exit("success")
          ELSE pc' = "ci_loop" /\ UNCHANGED report
    /\ UNCHANGED <<eVars, cmd, nrVars, mVars, gcVars, retry_attempts, attempt, issueCalls, sleeps, ic_res,
                   icOk, opensslRaised,
                   obGhost2, inputVars, envVars, vhost_configs, ssl_success, ssl_errors,
                   generated, obVars, rlVars, obGhost, runGhost>>

\* lines 354-360: a certificate that exists and is not due is counted,
\* any other domain goes to issue_cert (lines 238-266)
CheckAllDomain ==
    /\ cmd = "check_and_issue" /\ pc = "ci_loop"
    /\ idx <= Len(ssl_domains)
    /\ \E openssl \in {"ok", "raise"} :
        LET c == certs[ssl_domains[idx]] IN
        IF cert_exists(c) /\ ~cert_needs_renewal(c, DaysThreshold, openssl)
            THEN /\ success_count' = success_count + 1
                 /\ idx' = idx + 1
                 /\ UNCHANGED <<pc, attempt, issueCalls, sleeps, attempted, opensslRaised>>
            ELSE /\ pc' = "ic_try"
                 /\ opensslRaised' = (cert_exists(c) /\ openssl = "raise")
                 /\ attempt' = 1
                 /\ issueCalls' = 0
                 /\ sleeps' = 0
                 /\ attempted' = Append(attempted, ssl_domains[idx])
                 /\ UNCHANGED <<success_count, idx>>
    /\ UNCHANGED <<eVars, cmd, report, nrVars, mVars, gcVars, retry_attempts, ic_res, icOk, obGhost2,
                   inputVars,
                   envVars, vhost_configs, ssl_domains, ssl_success, ssl_errors, generated,
                   obVars, rlVars, obGhost, failedNow, collected, written, reloadCmds,
                   testRes>>

\* variant: the delay is also applied after the last attempt
SleepsAfter_mut(n, attempts) == TRUE

\* lines 286-288: if attempt < retry_attempts: time.sleep(retry_interval)
SleepsAfter(n, attempts) == n < attempts

\* lines 268-291: one turn of the retry loop: run_command(cmd) with
\* check=True; success returns True, CalledProcessError goes on to the next
\* attempt, any other exception leaves issue_cert and the batch
IssueAttempt ==
    /\ cmd = "check_and_issue" /\ pc = "ic_try"
    /\ IF attempt > retry_attempts
          THEN /\ ic_res' = "false"
               /\ pc' = "ic_ret"
               /\ UNCHANGED <<issueCalls, certs, attempt, report, icOk>>
          ELSE /\ issueCalls' = issueCalls + 1
               /\ \E o \in Outcomes :
                    /\ icOk' = (o = "ok")
                    /\ certs' = IF o = "ok"
                                    THEN [certs EXCEPT ![ssl_domains[idx]] = IssuedCert]
                                    ELSE certs
                    /\ IF o = "ok"
                          THEN /\ ic_res' = "true"
                               /\ pc' = "ic_ret"
                               /\ UNCHANGED <<attempt, report>>
                       ELSE IF o = "raise"
                          THEN /\ ic_res' = "raise"
                               /\ Exit("failure")
                               /\ UNCHANGED attempt
                       ELSE IF SleepsAfter(attempt, retry_attempts)
                          THEN /\ pc' = "ic_sleep"
                               /\ UNCHANGED <<ic_res, attempt, report>>
                       ELSE /\ attempt' = attempt + 1
                            /\ UNCHANGED <<pc, ic_res, report>>
    /\ UNCHANGED <<eVars, cmd, nrVars, mVars, gcVars, retry_attempts, success_count, sleeps, opensslRaised,
                   obGhost2,
                   inputVars, nginxRunning, siteFiles, genVars, obVars, rlVars, obGhost,
                   runGhost>>

\* line 288: time.sleep(retry_interval), then the next attempt
IssueSleep ==
    /\ cmd = "check_and_issue" /\ pc = "ic_sleep"
    /\ sleeps' = sleeps + 1
    /\ attempt' = attempt + 1
    /\ pc' = "ic_try"
    /\ UNCHANGED <<eVars, cmd, report, nrVars, mVars, gcVars, retry_attempts, success_count, issueCalls,
                   ic_res, icOk, opensslRaised, obGhost2, inputVars, envVars, genVars, obVars, rlVars, obGhost,
                   runGhost>>

\* lines 360-361: if self.issue_cert(domain): success_count += 1
CheckAllIssued ==
    /\ cmd = "check_and_issue" /\ pc = "ic_ret"
    /\ success_count' = IF ic_res = "true" THEN success_count + 1 ELSE success_count
    /\ failedNow' = IF ic_res = "true" THEN failedNow ELSE failedNow \cup {ssl_domains[idx]}
    /\ idx' = idx + 1
    /\ pc' = "ci_loop"
    /\ IssueFrameDropped
    /\ UNCHANGED <<eVars, cmd, report, nrVars, mVars, gcVars, retry_attempts, obGhost2, inputVars, envVars,
                   vhost_configs, ssl_domains, ssl_success, ssl_errors, generated, obVars,
                   rlVars, obGhost, attempted, collected, written, reloadCmds, testRes>>

\* variant: the batch answers True as soon as one domain succeeded
all_domains_succeeded_mut(n, total) == n > 0

\* line 369: return success_count == total_count
all_domains_succeeded(n, total) == n = total

\* lines 363-369 with SSLCertificateManager.reload_nginx (428-435): one
\* `nginx -s reload` when a domain succeeded, its failure only logged
CheckAllEnd ==
    /\ cmd = "check_and_issue" /\ pc = "ci_loop"
    /\ idx > Len(ssl_domains)
    /\ reloadCmds' = IF success_count > 0 THEN reloadCmds + 1 ELSE reloadCmds
    /\ Exit(IF all_domains_succeeded(success_count, Len(ssl_domains))
               THEN "success" ELSE "failure")
    /\ UNCHANGED <<eVars, cmd, xVars, obGhost2, inputVars, envVars, genVars, obVars, rlVars,
                   obGhost, attempted, failedNow, collected, written, testRes>>

CheckAll ==
    \/ CheckAllStart \/ CheckAllDomain \/ IssueAttempt \/ IssueSleep
    \/ CheckAllIssued \/ CheckAllEnd

InitCheckAll ==
    /\ cmd = "check_and_issue" /\ pc = "ci_start"
    /\ vhosts \in CmVhostLists
    /\ no_ssl = FALSE /\ args = NoArgs
    /\ certs \in [Domains -> CmCertStates]
    /\ nginxRunning = TRUE
    /\ siteFiles = NoFiles
    /\ retry_attempts \in 1..DefaultRetryAttempts
    /\ attempt = 0 /\ success_count = 0
    /\ issueCalls = 0 /\ sleeps = 0 /\ ic_res = "none"
    /\ icOk = FALSE /\ opensslRaised = FALSE
    /\ InitRun /\ EIdle /\ file0 = NoFile /\ NrIdle /\ GcIdle /\ MIdle


\* ------------------- generate-config.py: generate_all_configs, run twice
\* the output directory: per site name no file (<<>>) or one file's content
NoConfs == [k \in SiteKeys |-> <<>>]
\* a file left by an earlier run, rendered at second 0
StaleConf ==
    <<[vhost |-> [hasName |-> TRUE, name |-> <<"s4">>, domains |-> << <<"a">> >>,
                  ssl |-> FALSE, type |-> "static", upstream |-> ""],
       generation_time |-> 0]>>
OutputDirs ==
    {[k \in SiteKeys |-> IF k \in stale THEN StaleConf ELSE <<>>] :
        stale \in SUBSET {<<"s1">>, <<"s4">>}}

\* validate_vhost: name and a non-empty domains list are required, a proxy
\* needs an upstream (the static entries of the input carry a root)
validate_vhost(vhost) ==
    /\ vhost.hasName
    /\ vhost.domains # <<>>
    /\ ~(vhost.type = "proxy" /\ vhost.upstream = "")

\* vhost.conf.j2 rendered with template_vars: a text determined by the two
\* variables it is given, the vhost entry and the generation time
vhost_conf_j2(vhost, generation_time) ==
    [vhost |-> vhost, generation_time |-> generation_time]

\* current_names of clean_old_configs
current_names(vs) == {vs[i].name : i \in 1..Len(vs)}

\* lines 160-165: load the vhosts, return False when there are none
GaStart ==
    /\ cmd = "generate_all_configs" /\ pc = "ga_start"
    /\ IF vhosts = <<>>
          THEN /\ pc' = "ga_done"
               /\ report' = "failure"
               /\ UNCHANGED <<idx, success_count>>
          ELSE /\ pc' = "ga_loop"
               /\ idx' = 1
               /\ success_count' = 0
               /\ UNCHANGED report
    /\ UNCHANGED <<eVars, cmd, nrVars, mVars, gcVars, retry_attempts, attempt, issueCalls, sleeps, ic_res,
                   icOk, opensslRaised, obGhost2, inputVars, envVars, vhost_configs,
                   ssl_domains, ssl_success, ssl_errors, generated, obVars, rlVars,
                   obGhost, runGhost>>

\* lines 167-169 with generate_vhost_config: validate, render with the time
\* read from the clock at that moment, write <name>.conf
GaVhost ==
    /\ cmd = "generate_all_configs" /\ pc = "ga_loop" /\ idx <= Len(vhosts)
    /\ LET vhost == vhosts[idx] IN
       IF validate_vhost(vhost)
          THEN \E now \in {clock, clock + 1} :
                /\ now <= MaxClock
                /\ clock' = now
                /\ confFiles' = [confFiles EXCEPT ![vhost.name] = <<vhost_conf_j2(vhost, now)>>]
                /\ success_count' = success_count + 1
          ELSE UNCHANGED <<clock, confFiles, success_count>>
    /\ idx' = idx + 1
    /\ UNCHANGED <<eVars, cmd, pc, report, nrVars, mVars, pass, clean_old, files1, retry_attempts, attempt,
                   issueCalls, sleeps, ic_res, icOk, opensslRaised, obGhost2, inputVars,
                   envVars, vhost_configs, ssl_domains, ssl_success, ssl_errors, generated,
                   obVars, rlVars, obGhost, runGhost>>

\* lines 171-175 with clean_old_configs: vhost['name'] of an entry without a
\* name raises KeyError before any file is deleted, and nothing between
\* line 143 and the end of main catches it; otherwise every file whose
\* stem is not a current name is deleted
GaClean ==
    /\ cmd = "generate_all_configs" /\ pc = "ga_loop" /\ idx > Len(vhosts)
    /\ pc' = "ga_done"
    /\ IF clean_old /\ \E i \in 1..Len(vhosts) : ~vhosts[i].hasName
          THEN /\ report' = "raise"
               /\ UNCHANGED confFiles
          ELSE /\ confFiles' = [k \in SiteKeys |->
                                    IF clean_old /\ k \notin current_names(vhosts)
                                       THEN <<>> ELSE confFiles[k]]
               /\ report' = IF success_count = Len(vhosts) THEN "success" ELSE "failure"
    /\ UNCHANGED <<eVars, cmd, nrVars, mVars, cmVars, clock, pass, clean_old, files1, obGhost2, inputVars,
                   envVars, genVars, obVars, rlVars, obGhost, runGhost>>

\* the second run: same vhosts.yml, same flags, some time later
GaRerun ==
    /\ cmd = "generate_all_configs" /\ pc = "ga_done" /\ pass = 1
    /\ pass' = 2
    /\ files1' = confFiles
    /\ \E now \in {clock, clock + 1} : now <= MaxClock /\ clock' = now
    /\ pc' = "ga_start"
    /\ report' = "none"
    /\ UNCHANGED <<eVars, cmd, nrVars, mVars, cmVars, clean_old, confFiles, obGhost2, inputVars, envVars,
                   genVars, obVars, rlVars, obGhost, runGhost>>

GenerateAll == GaStart \/ GaVhost \/ GaClean \/ GaRerun

InitGenerateAll ==
    /\ cmd = "generate_all_configs" /\ pc = "ga_start"
    /\ vhosts \in VhostLists
    /\ no_ssl = FALSE /\ args = NoArgs
    /\ certs = [d \in Domains |-> AbsentCert]
    /\ nginxRunning = FALSE
    /\ siteFiles = NoFiles
    /\ clock = 1 /\ pass = 1 /\ clean_old \in BOOLEAN
    /\ confFiles \in OutputDirs /\ files1 = NoConfs
    /\ InitRun /\ EIdle /\ file0 = NoFile /\ NrIdle /\ CmIdle /\ MIdle


\* -------- NginxManager.renew_certificates(domain) / SSLManager.renew_certificate
\* variant: the install's result is not looked at
install_certificate_mut(o) == TRUE

\* the 'success' of _install_certificate's result for an acme.sh
\* --install-cert that exited 0 ("ok") or non-zero ("fail", caught as
\* CalledProcessError)
install_certificate(o) == o = "ok"

\* variant: a skip answer is an error like any other non-zero exit
nonzero_renew_result_mut(o) == "failure"

\* lines 282-295: the result for a non-zero exit of acme.sh --renew, by
\* whether its stdout says Skip
nonzero_renew_result(o) == IF o = "skip" THEN "not_renewed" ELSE "failure"

\* what acme.sh --renew can answer: exit 0, non-zero with "Skip" in stdout,
\* non-zero otherwise, or subprocess.run raising
RenewOutcomes == {"ok", "skip", "fail", "raise"}

\* the sequences that list every element of a set once: the order in which
\* glob yields the configuration files is not fixed
Orderings(S) ==
    {q \in [1..Cardinality(S) -> S] : \A x \in S : \E k \in 1..Cardinality(S) : q[k] = x}

\* list_sites as renew_certificates uses it: the stems of the *.conf files
\* whose domain has a fullchain.pem in the store
ssl_sites == {d \in Domains : siteFiles[d] # NoFile /\ certs[d].fullchain # "missing"}

ErrRenewal == <<"renewal error">>
ErrNginxReload == <<"nginx reload failed", ":", " ">>

\* renew_certificates lines 237-241 and 260-266: one domain, or every site
\* with a certificate
RenewStart ==
    /\ cmd = "renew_certificates" /\ pc = "rn_start"
    /\ IF args.domain # <<>>
          THEN /\ odomain' = args.domain
               /\ attempted' = <<args.domain>>
               /\ pc' = "rn_check"
               /\ UNCHANGED <<ssl_domains, idx>>
          ELSE /\ ssl_domains' \in Orderings(ssl_sites)
               /\ idx' = 1
               /\ pc' = "rn_loop"
               /\ UNCHANGED <<odomain, attempted>>
    /\ UNCHANGED <<eVars, cmd, report, xVars, obGhost2, inputVars, envVars, vhost_configs,
                   ssl_success, ssl_errors, generated, ores, nginx_was_running, issue_rc,
                   rlVars, obGhost, failedNow, collected, written, reloadCmds, testRes>>

\* variant: nginx is reloaded after every pass over the sites
reload_when_renewed_mut(n) == TRUE

\* line 277: `if renewed:` on the list of the renewed domains, n its length
reload_when_renewed(n) == n > 0

\* lines 268-283: the next site of the loop; after the last one the reload
\* when something was renewed, then the result
RenewLoop ==
    /\ cmd = "renew_certificates" /\ pc = "rn_loop"
    /\ IF idx <= Len(ssl_domains)
          THEN /\ odomain' = ssl_domains[idx]
               /\ attempted' = Append(attempted, ssl_domains[idx])
               /\ rn_res' = "none" /\ renewRc' = "none" /\ renewForce' = "none"
               /\ rnOpenssl' = "none" /\ installRc' = "none"
               /\ pc' = "rn_check"
               /\ UNCHANGED <<report, ridx>>
          ELSE /\ IF reload_when_renewed(ssl_success)
                     THEN pc' = "rl_cmd" /\ ridx' = 1 /\ UNCHANGED report
                     ELSE Exit(IF ssl_errors # <<>> THEN "failure" ELSE "success")
                          /\ UNCHANGED ridx
               /\ UNCHANGED <<odomain, attempted, rnVars, installRc>>
    /\ UNCHANGED <<eVars, cmd, nrVars, cmVars, gcVars, rm_res, deregRc, res1, certs1, clVars, wrRc,
                   nginxCmds, inputVars, envVars, genVars, ores, nginx_was_running, issue_rc,
                   rres, rerr, obGhost, failedNow, collected, written, reloadCmds, testRes>>

\* renew_certificate lines 264-270: without force, a certificate that is not
\* due returns success with renewed False; openssl that cannot be started
\* raises into the handler of lines 308-313
RenewCheck ==
    /\ cmd = "renew_certificates" /\ pc = "rn_check"
    /\ IF args.force
          THEN pc' = "rn_renew" /\ UNCHANGED <<rn_res, rnOpenssl>>
          ELSE \E openssl \in {"ok", "raise"} :
                LET c == certs[odomain] IN
                /\ rnOpenssl' = IF certificate_exists(c) THEN openssl ELSE "none"
                /\ IF certificate_exists(c) /\ openssl = "raise"
                      THEN rn_res' = "failure" /\ pc' = "rn_ret"
                   ELSE IF ~certificate_needs_renewal(c, DaysThreshold)
                      THEN rn_res' = "not_renewed" /\ pc' = "rn_ret"
                   ELSE pc' = "rn_renew" /\ UNCHANGED rn_res
    /\ UNCHANGED <<eVars, cmd, report, nrVars, cmVars, gcVars, renewRc, renewForce, rm_res, deregRc,
                   res1, certs1, clVars, obGhost2, inputVars, envVars, genVars, obVars, rlVars,
                   obGhost, runGhost>>

\* lines 272-295: acme.sh --renew -d domain [--force], check=False
RenewRun ==
    /\ cmd = "renew_certificates" /\ pc = "rn_renew"
    /\ renewForce' = IF args.force THEN "yes" ELSE "no"
    /\ \E o \in RenewOutcomes :
        /\ renewRc' = o
        /\ IF o = "ok" THEN pc' = "rn_install" /\ UNCHANGED rn_res
           ELSE /\ pc' = "rn_ret"
                /\ rn_res' = IF o = "raise" THEN "failure" ELSE nonzero_renew_result(o)
    /\ UNCHANGED <<eVars, cmd, report, nrVars, cmVars, gcVars, rnOpenssl, rm_res, deregRc, res1,
                   certs1, clVars, obGhost2, inputVars, envVars, genVars, obVars, rlVars, obGhost,
                   runGhost>>

\* lines 297-306: _install_certificate, whose failure result is returned as
\* it is; an exception other than CalledProcessError reaches lines 308-313
RenewInstall ==
    /\ cmd = "renew_certificates" /\ pc = "rn_install"
    /\ \E o \in Outcomes :
        /\ installRc' = o
        /\ certs' = IF o = "ok" THEN [certs EXCEPT ![odomain] = IssuedCert] ELSE certs
        /\ rn_res' = IF o # "raise" /\ install_certificate(o) THEN "renewed" ELSE "failure"
    /\ pc' = "rn_ret"
    /\ UNCHANGED <<eVars, cmd, report, nrVars, cmVars, gcVars, renewRc, renewForce, rnOpenssl,
                   rm_res, deregRc, res1, certs1, clVars, wrRc, nginxCmds, inputVars, nginxRunning,
                   siteFiles, genVars, obVars, rlVars, obGhost, runGhost>>

\* renew_certificates lines 241-259 for one domain: reload when the
\* certificate was renewed; lines 269-273 for every site: count the renewed
\* and collect the errors
RenewResult ==
    /\ cmd = "renew_certificates" /\ pc = "rn_ret"
    /\ IF args.domain # <<>>
          THEN /\ IF rn_res = "renewed"
                     THEN pc' = "rl_cmd" /\ ridx' = 1 /\ UNCHANGED report
                     ELSE Exit(IF rn_res = "not_renewed" THEN "success" ELSE "failure")
                          /\ UNCHANGED ridx
               /\ UNCHANGED <<idx, ssl_success, ssl_errors, failedNow>>
          ELSE /\ ssl_success' = IF rn_res = "renewed" THEN ssl_success + 1 ELSE ssl_success
               /\ ssl_errors' = IF rn_res = "failure"
                                   THEN Append(ssl_errors, error_msg(odomain, ErrRenewal))
                                   ELSE ssl_errors
               /\ failedNow' = IF rn_res = "failure" THEN failedNow \cup {odomain}
                               ELSE failedNow
               /\ idx' = idx + 1
               /\ pc' = "rn_loop"
               /\ UNCHANGED <<report, ridx>>
    /\ UNCHANGED <<eVars, cmd, xVars, obGhost2, inputVars, envVars, vhost_configs, ssl_domains,
                   generated, obVars, rres, rerr, obGhost, attempted, collected, written,
                   reloadCmds, testRes>>

\* lines 246-251: for one domain a failed reload makes the result a failure;
\* lines 277-295: for every site it is added to the errors of a success
RenewReloadResult ==
    /\ cmd = "renew_certificates" /\ pc = "rl_ret"
    /\ IF args.domain # <<>>
          THEN Exit(result_after_reload(rres)) /\ UNCHANGED ssl_errors
          ELSE /\ ssl_errors' = IF rres = "ok" THEN ssl_errors
                                ELSE Append(ssl_errors, ErrNginxReload \o rerr)
               /\ Exit("success")
    /\ UNCHANGED <<eVars, cmd, xVars, obGhost2, inputVars, envVars, vhost_configs, ssl_domains, idx,
                   ssl_success, generated, obVars, rlVars, obGhost, runGhost>>

Renew ==
    \/ RenewStart \/ RenewLoop \/ RenewCheck \/ RenewRun \/ RenewInstall
    \/ RenewResult \/ RenewReloadResult

InitRenew ==
    /\ cmd = "renew_certificates" /\ pc = "rn_start"
    /\ vhosts = <<>> /\ no_ssl = FALSE
    /\ args \in [domain : Domains \cup {<<>>}, backend : {""}, ssl : {TRUE}, force : BOOLEAN]
    /\ certs \in [Domains -> CertStates]
    /\ nginxRunning \in BOOLEAN
    /\ siteFiles \in {[k \in FileKeys |-> IF k \in S THEN generate_site_config(k, "", TRUE)
                                          ELSE NoFile] : S \in SUBSET Domains}
    /\ InitRun /\ EIdle /\ file0 = NoFile /\ NrIdle /\ CmIdle /\ GcIdle /\ MIdle

\* ------------------------------------------------ cli.py: the renew command
\* lines 280-294 on the result of renew_certificates: a success is reported,
\* then `if result.get('errors')` lists them and the command ends with status
\* 0; its else branch reads result['error'], which a success does not have
\* (KeyError, a traceback and status 1), and calls sys.exit(1) on a failure
renew_exit_status(r, errors) == IF r = "success" /\ errors # <<>> THEN 0 ELSE 1

\* lines 271-276: with a domain only the message is printed; the call of
\* renew_certificates and all that follows is in the else branch
CliRenewStart ==
    /\ cli = "renew" /\ pc = "cr_start"
    /\ IF args.domain # <<>>
          THEN pc' = "exited" /\ exitCode' = 0 /\ UNCHANGED rcCalls
          ELSE pc' = "rn_start" /\ rcCalls' = rcCalls + 1 /\ UNCHANGED exitCode
    /\ UNCHANGED <<cmd, report, cli, file0, epVars, regenVars, xVars, obGhost2, inputVars,
                   envVars, genVars, obVars, rlVars, obGhost, runGhost>>

\* lines 278-294: the result decides the exit status
CliRenewExit ==
    /\ cli = "renew" /\ pc = "done"
    /\ exitCode' = renew_exit_status(report, ssl_errors)
    /\ pc' = "exited"
    /\ UNCHANGED <<cmd, report, cli, rcCalls, file0, epVars, regenVars, xVars, obGhost2,
                   inputVars, envVars, genVars, obVars, rlVars, obGhost, runGhost>>

CliRenew == CliRenewStart \/ CliRenewExit

InitCliRenew ==
    /\ cmd = "renew_certificates" /\ pc = "cr_start"
    /\ cli = "renew" /\ exitCode = "none" /\ rcCalls = 0
    /\ vhosts = <<>> /\ no_ssl = FALSE
    /\ args \in [domain : Domains \cup {<<>>}, backend : {""}, ssl : {TRUE}, force : BOOLEAN]
    /\ certs \in [Domains -> CertStates]
    /\ nginxRunning \in BOOLEAN
    /\ siteFiles \in {[k \in FileKeys |-> IF k \in S THEN generate_site_config(k, "", TRUE)
                                          ELSE NoFile] : S \in SUBSET Domains}
    /\ file0 = NoFile
    /\ InitRun /\ EpIdle /\ RegenIdle /\ NrIdle /\ CmIdle /\ GcIdle /\ MIdle

NextCliRenew == CliRenew \/ Renew \/ ReloadStep
SpecCliRenew == InitCliRenew /\ [][NextCliRenew]_vars

\* ------------- SSLManager.remove_certificate and NginxManager.remove_site
\* what `acme.sh --remove` can answer: exit 0, non-zero exit (check=False, so
\* no exception), RuntimeError of _run_acme_command when no acme.sh was
\* found, or subprocess.run raising OSError
DeregOutcomes == {"ok", "fail", "notfound", "raise"}

\* remove_certificate lines 319-323: the inner handler is for
\* subprocess.CalledProcessError, which check=False never raises; RuntimeError
\* and OSError pass it and reach the outer handler of lines 336-341
DeregIgnored(o) == o \in {"ok", "fail"}

\* lines 319-323: the deregistration
RemoveDeregister ==
    /\ cmd \in {"remove_certificate", "remove_site"} /\ pc = "rm_acme"
    /\ \E o \in DeregOutcomes :
        /\ deregRc' = o
        /\ IF DeregIgnored(o)
              THEN pc' = "rm_files" /\ UNCHANGED rm_res
              ELSE pc' = "rm_ret" /\ rm_res' = "failure"
    /\ UNCHANGED <<eVars, cmd, report, nrVars, cmVars, gcVars, rnVars, res1, certs1, clVars, obGhost2,
                   inputVars, envVars, genVars, obVars, rlVars, obGhost, runGhost>>

\* lines 325-334: the certificate directory, when it exists, is deleted with
\* its content (the deletion itself is taken to succeed)
RemoveFiles ==
    /\ cmd \in {"remove_certificate", "remove_site"} /\ pc = "rm_files"
    /\ certs' = [certs EXCEPT ![args.domain] = AbsentCert]
    /\ rm_res' = "success"
    /\ pc' = "rm_ret"
    /\ UNCHANGED <<eVars, cmd, report, nrVars, cmVars, gcVars, rnVars, deregRc, res1, certs1, clVars,
                   obGhost2, inputVars, nginxRunning, siteFiles, genVars, obVars, rlVars,
                   obGhost, runGhost>>

\* remove_certificate(domain) called a second time on the same store
RemoveAgain ==
    /\ cmd = "remove_certificate" /\ pc = "rm_ret" /\ pass = 1
    /\ pass' = 2
    /\ res1' = rm_res
    /\ certs1' = certs
    /\ rm_res' = "none" /\ deregRc' = "none"
    /\ pc' = "rm_acme"
    /\ UNCHANGED <<eVars, cmd, report, nrVars, cmVars, clock, clean_old, confFiles, files1, rnVars, clVars,
                   obGhost2, inputVars, envVars, genVars, obVars, rlVars, obGhost, runGhost>>

\* remove_site lines 160-169: the existence check and the unlink
RemoveSiteStart ==
    /\ cmd = "remove_site" /\ pc = "rs_start"
    /\ IF siteFiles[args.domain] = NoFile
          THEN Exit("failure") /\ UNCHANGED siteFiles
          ELSE \E o \in {"ok", "raise"} :
                IF o = "raise"
                   THEN Exit("failure") /\ UNCHANGED siteFiles
                   ELSE /\ siteFiles' = [siteFiles EXCEPT ![args.domain] = NoFile]
                        /\ pc' = "rm_acme"
                        /\ UNCHANGED report
    /\ UNCHANGED <<eVars, cmd, xVars, obGhost2, inputVars, certs, nginxRunning, genVars, obVars,
                   rlVars, obGhost, runGhost>>

\* lines 171-174: the result of remove_certificate is not looked at, the
\* reload follows
RemoveSiteCertRemoved ==
    /\ cmd = "remove_site" /\ pc = "rm_ret"
    /\ pc' = "rl_cmd" /\ ridx' = 1
    /\ UNCHANGED <<eVars, cmd, report, xVars, obGhost2, inputVars, envVars, genVars, obVars, rres, rerr,
                   obGhost, runGhost>>

\* lines 175-185: the result of the reload decides the result of the call
RemoveSiteReloadResult ==
    /\ cmd = "remove_site" /\ pc = "rl_ret"
    /\ Exit(result_after_reload(rres))
    /\ UNCHANGED <<eVars, cmd, xVars, obGhost2, inputVars, envVars, genVars, obVars, rlVars, obGhost,
                   runGhost>>

Remove ==
    \/ RemoveDeregister \/ RemoveFiles \/ RemoveAgain
    \/ RemoveSiteStart \/ RemoveSiteCertRemoved \/ RemoveSiteReloadResult

InitRemoveCertificate ==
    /\ cmd = "remove_certificate" /\ pc = "rm_acme"
    /\ vhosts = <<>> /\ no_ssl = FALSE
    /\ args \in [domain : Domains, backend : {""}, ssl : {TRUE}, force : {FALSE}]
    /\ certs \in [Domains -> CertStates]
    /\ nginxRunning \in BOOLEAN
    /\ siteFiles = NoFiles
    /\ clock = 0 /\ pass = 1 /\ clean_old = FALSE /\ confFiles = <<>> /\ files1 = <<>>
    /\ InitRun /\ EIdle /\ file0 = NoFile /\ NrIdle /\ CmIdle /\ MIdle

InitRemoveSite ==
    /\ cmd = "remove_site" /\ pc = "rs_start"
    /\ vhosts = <<>> /\ no_ssl = FALSE
    /\ args \in [domain : Domains, backend : {""}, ssl : BOOLEAN, force : {FALSE}]
    /\ certs \in [Domains -> CertStates]
    /\ nginxRunning \in BOOLEAN
    /\ siteFiles \in {NoFiles,
                      [NoFiles EXCEPT ![args.domain] =
                          generate_site_config(args.domain, "", args.ssl)]}
    /\ InitRun /\ EIdle /\ file0 = NoFile /\ NrIdle /\ CmIdle /\ GcIdle /\ MIdle


\* ------------------------------ entrypoint.py: signal_handler and cleanup
\* line 95: the wait loop ends when the countdown reaches 0
GracePeriodOver(t) == t <= 0

\* is_nginx_running: pgrep's answer, False when running pgrep raised
is_nginx_running(probe) == probe = "ok" /\ nginxRunning

\* lines 77-88: the handler sets shutdown_event and calls cleanup, which
\* looks whether nginx is running
CleanupStart ==
    /\ cmd = "cleanup" /\ pc = "cl_start"
    /\ \E probe \in {"ok", "raise"} :
        IF is_nginx_running(probe)
           THEN pc' = "cl_quit" /\ UNCHANGED report
           ELSE Exit("success")
    /\ UNCHANGED <<eVars, cmd, xVars, obGhost2, inputVars, envVars, genVars, obVars, rlVars, obGhost,
                   runGhost>>

\* lines 90-94: nginx -s quit (its exit status is not looked at), then the
\* countdown is set; an exception goes to the handler of lines 103-104 and
\* the process exits
CleanupQuit ==
    /\ cmd = "cleanup" /\ pc = "cl_quit"
    /\ \E o \in Outcomes :
        /\ quitRc' = o
        /\ IF o = "raise"
              THEN Exit("success") /\ UNCHANGED timeout
              ELSE pc' = "cl_wait" /\ timeout' = GracePeriod /\ UNCHANGED report
    /\ UNCHANGED <<eVars, cmd, nrVars, cmVars, gcVars, rnVars, rmVars, killRc, obGhost2, inputVars,
                   envVars, genVars, obVars, rlVars, obGhost, runGhost>>

\* lines 95-97: one evaluation of the loop condition; nginx that accepted
\* the quit may have exited meanwhile
CleanupPoll ==
    /\ cmd = "cleanup" /\ pc = "cl_wait"
    /\ \E exited \in BOOLEAN, probe \in {"ok", "raise"} :
        /\ nginxRunning' = IF quitRc = "ok" /\ exited THEN FALSE ELSE nginxRunning
        /\ IF (probe = "ok" /\ nginxRunning') /\ ~GracePeriodOver(timeout)
              THEN timeout' = timeout - 1 /\ UNCHANGED pc
              ELSE pc' = "cl_kill" /\ UNCHANGED timeout
    /\ UNCHANGED <<eVars, cmd, report, nrVars, cmVars, gcVars, rnVars, rmVars, quitRc, killRc,
                   obGhost2, inputVars, certs, siteFiles, genVars, obVars, rlVars, obGhost,
                   runGhost>>

\* lines 99-107: pkill -9 nginx when nginx is still seen running (its exit
\* status is not looked at), then sys.exit(0)
CleanupKill ==
    /\ cmd = "cleanup" /\ pc = "cl_kill"
    /\ \E probe \in {"ok", "raise"} :
        IF is_nginx_running(probe)
           THEN \E o \in Outcomes :
                /\ killRc' = o
                /\ nginxRunning' = IF o = "ok" THEN FALSE ELSE nginxRunning
           ELSE UNCHANGED <<killRc, nginxRunning>>
    /\ Exit("success")
    /\ UNCHANGED <<eVars, cmd, nrVars, cmVars, gcVars, rnVars, rmVars, timeout, quitRc, obGhost2,
                   inputVars, certs, siteFiles, genVars, obVars, rlVars, obGhost, runGhost>>

Cleanup == CleanupStart \/ CleanupQuit \/ CleanupPoll \/ CleanupKill

InitCleanup ==
    /\ cmd = "cleanup" /\ pc = "cl_start"
    /\ vhosts = <<>> /\ no_ssl = FALSE /\ args = NoArgs
    /\ certs \in [Domains -> CertStates]
    /\ nginxRunning \in BOOLEAN
    /\ siteFiles = NoFiles
    /\ InitRun /\ EIdle /\ file0 = NoFile /\ NrIdle /\ CmIdle /\ GcIdle /\ MIdle

\* ------------------- entrypoint.py: main_loop, signals and run's finally
\* how many signals are delivered in one run
MaxSignals == 2

MainLoopPcs == {"ml_check", "ml_start", "ml_break", "ml_wait"}
CleanupPcs == {"cl_start", "cl_quit", "cl_wait", "cl_kill"}

\* what the steps of the main thread leave alone
epRest ==
    <<cmd, report, inputVars, genVars, obVars, rlVars, obGhost, obGhost2, runGhost, nrVars,
      cmVars, gcVars, rnVars, rmVars, file0, cliVars, regenVars, certs, siteFiles>>

\* a call of cleanup(): a new frame with its own locals
EnterCleanup ==
    /\ pc' = "cl_start"
    /\ started' = started + 1
    /\ timeout' = 0 /\ quitRc' = "none" /\ killRc' = "none"

\* variant: a start that failed is taken for a success
start_succeeded_mut(o) == TRUE

\* start_nginx lines 341-349: True when run_command(['nginx']) returned,
\* False when it raised (non-zero exit with check=True, or OSError)
start_succeeded(o) == o = "ok"

\* main_loop lines 483-487: the loop condition, then is_nginx_running
MainLoopCheck ==
    /\ epc = "try" /\ pc = "ml_check"
    /\ IF shutdown_event
          THEN /\ epc' = "finally" /\ EnterCleanup
          ELSE /\ \E probe \in {"ok", "raise"} :
                    pc' = IF is_nginx_running(probe) THEN "ml_wait" ELSE "ml_start"
               /\ UNCHANGED <<epc, started, clVars>>
    /\ UNCHANGED <<epRest, nginxRunning, shutdown_event, frames, finished>>

\* lines 488-490 with start_nginx (324-349): an nginx that is seen running
\* is stopped first, then `nginx` is run; a failed start breaks the loop
MainLoopStart ==
    /\ epc = "try" /\ pc = "ml_start"
    /\ \E probe \in {"ok", "raise"}, stopped \in BOOLEAN, o \in Outcomes :
        /\ nginxRunning' = IF o = "ok" THEN TRUE
                            ELSE IF is_nginx_running(probe) /\ stopped THEN FALSE
                            ELSE nginxRunning
        /\ pc' = IF start_succeeded(o) THEN "ml_wait" ELSE "ml_break"
    /\ UNCHANGED <<epRest, epVars, clVars>>

\* line 490: break; the loop is over, run's finally clause calls cleanup
MainLoopBreak ==
    /\ epc = "try" /\ pc = "ml_break"
    /\ epc' = "finally"
    /\ EnterCleanup
    /\ UNCHANGED <<epRest, nginxRunning, shutdown_event, frames, finished>>

\* line 493: shutdown_event.wait(30) returns
MainLoopWait ==
    /\ epc = "try" /\ pc = "ml_wait"
    /\ pc' = "ml_check"
    /\ UNCHANGED <<epRest, epVars, clVars, nginxRunning>>

\* nginx exits by itself while the container runs
NginxExits ==
    /\ epc = "try" /\ pc \in MainLoopPcs
    /\ nginxRunning
    /\ nginxRunning' = FALSE
    /\ UNCHANGED <<epRest, pc, epVars, clVars>>

MainLoop == MainLoopCheck \/ MainLoopStart \/ MainLoopBreak \/ MainLoopWait \/ NginxExits

\* lines 72-81: SIGTERM or SIGINT is handled in the main thread, between two
\* of its steps, wherever it is: the handler sets shutdown_event and calls
\* cleanup on top of the interrupted frame
Signal ==
    /\ epc \in {"try", "finally"} /\ pc # "done"
    /\ Len(frames) < MaxSignals
    /\ frames' = Append(frames, pc)
    /\ shutdown_event' = TRUE
    /\ EnterCleanup
    /\ UNCHANGED <<epRest, nginxRunning, epc, finished>>

\* line 107 and run lines 541-548: sys.exit(0) raises SystemExit, which no
\* `except Exception` on the way catches: every interrupted frame is left
\* where it was interrupted; when it passes run's try block the finally
\* clause calls cleanup, when it comes from that call the process ends
Unwind ==
    /\ epc \in {"try", "finally"} /\ pc = "done"
    /\ finished' = finished + 1
    /\ frames' = <<>>
    /\ IF epc = "try"
          THEN epc' = "finally" /\ EnterCleanup
          ELSE epc' = "exited" /\ pc' = "exited" /\ UNCHANGED <<started, clVars>>
    /\ UNCHANGED <<epRest, nginxRunning, shutdown_event>>

InitEntry ==
    /\ cmd = "cleanup" /\ pc = "ml_check"
    /\ epc = "try" /\ shutdown_event = FALSE /\ frames = <<>>
    /\ started = 0 /\ finished = 0
    /\ vhosts = <<>> /\ no_ssl = FALSE /\ args = NoArgs
    /\ certs = [d \in Domains |-> AbsentCert]
    /\ nginxRunning \in BOOLEAN
    /\ siteFiles = NoFiles
    /\ file0 = NoFile
    /\ InitRun /\ CliIdle /\ RegenIdle /\ NrIdle /\ CmIdle /\ GcIdle /\ MIdle

NextEntry == MainLoop \/ Signal \/ Cleanup \/ Unwind
SpecEntry == InitEntry /\ [][NextEntry]_vars

\* ---- overlapping runs of generate-config.py --all (file watch and cron)
\* how often vhosts.yml is edited while the runs are under way
MaxEdits == 1

\* the processes: 1 is started by cron, 2 by the on_modified event of an
\* edit (the observer thread handles one event at a time)
RegenRuns == {1, 2}
IdleRun == [pc |-> "idle", vhosts |-> <<>>, i |-> 1]

\* the vhosts.yml contents of this flow: at least one entry, every entry valid
RegenLists ==
    {vs \in VhostLists : vs # <<>> /\ \A i \in 1..Len(vs) : validate_vhost(vs[i])}

regenRest ==
    <<cmd, pc, report, no_ssl, args, envVars, genVars, obVars, rlVars, obGhost, obGhost2,
      runGhost, nrVars, cmVars, mVars, clock, pass, clean_old, files1, file0, cliVars, epVars>>

\* the file is saved with another content
EditYml ==
    /\ cmd = "regenerate" /\ ymlEdits < MaxEdits
    /\ vhosts' \in RegenLists \ {vhosts}
    /\ ymlEdits' = ymlEdits + 1
    /\ UNCHANGED <<regenRest, confFiles, runs>>

\* handle_config_change lines 458-460 or the hourly cron line (402) start
\* the script; generate_all_configs line 160 reads vhosts.yml once
RegenLoad(p) ==
    /\ cmd = "regenerate" /\ runs[p].pc = "idle"
    /\ p = 2 => ymlEdits > 0
    /\ runs' = [runs EXCEPT ![p] = [pc |-> "loop", vhosts |-> vhosts, i |-> 1]]
    /\ UNCHANGED <<regenRest, vhosts, confFiles, ymlEdits>>

\* lines 167-169: the next entry of the list this run has read
RegenVhost(p) ==
    /\ cmd = "regenerate" /\ runs[p].pc = "loop"
    /\ LET vhost == runs[p].vhosts[runs[p].i] IN
        confFiles' = IF validate_vhost(vhost)
                        THEN [confFiles EXCEPT ![vhost.name] = <<vhost_conf_j2(vhost, clock)>>]
                        ELSE confFiles
    /\ runs' = [runs EXCEPT ![p].i = @ + 1,
                            ![p].pc = IF runs[p].i = Len(runs[p].vhosts) THEN "clean" ELSE "loop"]
    /\ UNCHANGED <<regenRest, vhosts, ymlEdits>>

\* lines 171-172 with clean_old_configs (141-156): every file whose stem is
\* not a name of the list this run has read is deleted; the reload that
\* follows in main (229-230) touches no file
RegenClean(p) ==
    /\ cmd = "regenerate" /\ runs[p].pc = "clean"
    /\ confFiles' = [k \in SiteKeys |->
                        IF k \notin current_names(runs[p].vhosts) THEN <<>> ELSE confFiles[k]]
    /\ runs' = [runs EXCEPT ![p].pc = "done"]
    /\ UNCHANGED <<regenRest, vhosts, ymlEdits>>

Regen == EditYml \/ \E p \in RegenRuns : RegenLoad(p) \/ RegenVhost(p) \/ RegenClean(p)

InitRegen ==
    /\ cmd = "regenerate" /\ pc = "none"
    /\ vhosts \in RegenLists
    /\ no_ssl = FALSE /\ args = NoArgs
    /\ certs = [d \in Domains |-> AbsentCert]
    /\ nginxRunning = TRUE
    /\ siteFiles = NoFiles
    /\ clock = 0 /\ pass = 0 /\ clean_old = TRUE
    /\ confFiles = NoConfs /\ files1 = <<>>
    /\ runs = [p \in RegenRuns |-> IdleRun] /\ ymlEdits = 0
    /\ file0 = NoFile
    /\ InitRun /\ CliIdle /\ EpIdle /\ NrIdle /\ CmIdle /\ MIdle

SpecRegen == InitRegen /\ [][Regen]_vars

\* ------------------------------------------------------ specifications
Init ==
    \/ InitGenerate \/ InitAddSite \/ InitScript \/ InitGetSslDomains
    \/ InitNeedsRenewal \/ InitCheckAll \/ InitGenerateAll
    \/ InitRenew \/ InitRemoveCertificate \/ InitRemoveSite
    \/ InitCleanup
Next ==
    \/ Generate \/ Obtain \/ AddSite \/ ReloadStep \/ Script \/ GetSslDomains
    \/ NeedsRenewal \/ CmNeedsRenewal \/ CheckAll \/ GenerateAll
    \/ Renew \/ Remove \/ Cleanup
Spec == Init /\ [][Next]_vars

\* ------------------------------------------------------------- claims
ObtainPcs == {"ob_check", "wr_probe", "wr_issue", "wr_install", "sa_running",
              "sa_quit", "sa_pkill", "sa_issue", "sa_restart", "sa_install",
              "sa_except", "ob_ret"}
Range(q) == {q[i] : i \in 1..Len(q)}
CertPhaseRan == cmd = "generate" /\ ssl_domains # <<>> /\ ~no_ssl
CertPhaseOver == pc \in {"g_write", "g_renewal", "done"}
MaterialPresent(d) == certs[d].fullchain = "ok" /\ certs[d].privkey = "ok"

\* C1: whenever a standalone attempt (_obtain_with_nginx_reload) that began
\* with nginx running has returned, nginx is running, whatever the outcome of
\* the stop, the issuance and the install.
C1_GuaranteedRestart ==
    (pc = "ob_ret" /\ saEntered /\ runningAtBegin) => nginxRunning

\* C2: in a generate run no site file is written while a certificate
\* obtainment of the run is still to come, no reload is issued during the
\* certificate phase, and a run whose configuration test passed has reloaded
\* the web server exactly once.
C2_CertsThenWritesOneReload ==
    cmd = "generate" =>
        /\ (pc \in ObtainPcs \cup {"g_gate", "g_loop"} => written = {} /\ reloadCmds = 0)
        /\ (pc = "done" /\ testRes = "ok" => reloadCmds = 1)

\* C3: in a generate run with two SSL sites A and B of different primary
\* domains whose files were both written and whose configuration test
\* passed, where obtainment failed for A's domain and succeeded for B's, the
\* file of B enables SSL, the file of A does not, and a reload was issued.
C3_IsolationAndReload ==
    \A i, j \in 1..Len(collected) :
        (/\ CertPhaseRan /\ pc = "done" /\ testRes = "ok"
         /\ collected[i].ssl /\ collected[j].ssl
         /\ collected[i].domain # collected[j].domain
         /\ collected[i].domain \in failedNow
         /\ collected[j].domain \notin failedNow
         /\ {collected[i].name, collected[j].name} \subseteq written)
        => /\ siteFiles[collected[j].name].ssl
           /\ ~siteFiles[collected[i].name].ssl
           /\ reloadCmds >= 1

\* C4: at the end of a generate run every site file the run wrote with SSL
\* enabled names a domain whose full chain and private key are both present
\* in the certificate store.
C4_SslFilesHaveMaterial ==
    (cmd = "generate" /\ pc = "done") =>
        \A k \in written : siteFiles[k].ssl => MaterialPresent(siteFiles[k].domain)

\* C5: in generate, add_site and generate-config.py's reload_nginx, a run
\* whose nginx -t exited non-zero issues no reload command and ends
\* reporting failure.
C5_FailedTestNoReload ==
    testRes = "fail" => /\ reloadCmds = 0
                        /\ pc = "done"
                        /\ report = "failure"
C5_Witness ==
    /\ testRes = "fail" /\ pc = "done" /\ cmd = "add_site"
    /\ args.ssl /\ certs[args.domain] = IssuedCert

\* C6: a generate run whose configuration test passed has issued a reload
\* and ends reporting success.
C6_PassedTestReloadsAndSucceeds ==
    (cmd = "generate" /\ pc = "done" /\ testRes = "ok")
        => reloadCmds >= 1 /\ report = "success"

\* C7: once the certificate phase of generate is over, obtainment was
\* attempted once for every collected SSL domain, in order, and every attempt
\* was either counted as a success or recorded as an error carrying its
\* domain: no failure or exception of one attempt ended the phase early.
C7_EveryDomainAttempted ==
    (CertPhaseRan /\ CertPhaseOver) =>
        /\ attempted = ssl_domains
        /\ ssl_success + Len(ssl_errors) = Len(ssl_domains)
        /\ failed_domains(ssl_errors) = failedNow
        /\ \A i \in 1..Len(ssl_errors) : FirstField(ssl_errors[i]) \in Range(ssl_domains)
C7_Witness ==
    /\ CertPhaseRan /\ pc = "g_write"
    /\ Len(ssl_domains) = 2
    /\ ssl_errors = <<error_msg(ssl_domains[1], ErrStr)>>
    /\ ssl_success = 1

\* C8 as stated: the domains for which certificate work is attempted in a
\* run are exactly the primary domains of the vhosts whose ssl flag is true.
SslPrimaries == {v.domains[1] : v \in {w \in Range(vhosts) : w.ssl /\ w.domains # <<>>}}
C8_Original ==
    /\ (cmd = "generate" /\ CertPhaseOver) => Range(attempted) = SslPrimaries
    /\ (cmd = "get_ssl_domains" /\ pc = "done") => Range(ssl_domains) = SslPrimaries

\* C8 as amended: generate attempts obtainment for exactly the primary
\* domains of the entries that have a name, a non-empty domains list and a
\* true ssl flag, in order, and for none at all under --no-ssl;
\* get_ssl_domains returns the primary domains of the entries with a true ssl
\* flag and a non-empty domains list, named or not.
PrimariesOf(q) == [i \in 1..Len(q) |-> q[i].domains[1]]
IsSslEntry(v) == v.ssl /\ v.domains # <<>>
IsNamedSslEntry(v) == v.hasName /\ IsSslEntry(v)
C8_Amended ==
    /\ (cmd = "generate" /\ CertPhaseOver) =>
            attempted = IF no_ssl THEN <<>>
                        ELSE PrimariesOf(SelectSeq(vhosts, IsNamedSslEntry))
    /\ (cmd = "get_ssl_domains" /\ pc = "done") =>
            ssl_domains = PrimariesOf(SelectSeq(vhosts, IsSslEntry))
C8_Witness ==
    /\ cmd = "generate" /\ pc = "done" /\ ~no_ssl
    /\ Len(vhosts) = 2
    /\ ~vhosts[1].ssl /\ vhosts[1].domains = << <<"a">> >>
    /\ vhosts[2].ssl /\ vhosts[2].domains = << <<"b">>, <<"a">> >>
    /\ attempted = << <<"b">> >>

\* C9: after the downgrade step of generate each effective site config is
\* the collected one with ssl turned off exactly when its primary domain
\* failed obtainment in this run, name, domain and backend untouched, and the
\* vhosts read from the source still yield the collected configs.
C9_DowngradeExact ==
    (CertPhaseRan /\ pc \in {"g_write", "g_renewal"}) =>
        /\ Len(vhost_configs) = Len(collected)
        /\ \A i \in 1..Len(collected) :
              vhost_configs[i] =
                  [collected[i] EXCEPT
                      !.ssl = collected[i].ssl /\ collected[i].domain \notin failedNow]
        /\ collected = CollectConfigs(vhosts)
C9_Witness ==
    /\ CertPhaseRan /\ pc = "g_write"
    /\ \E i, j \in 1..Len(collected) :
        /\ collected[i].ssl /\ ~vhost_configs[i].ssl /\ vhost_configs[i].backend # ""
        /\ collected[j].ssl /\ vhost_configs[j].ssl

\* C10: in an obtain attempt whose write-and-delete probe of the webroot
\* challenge directory failed, the webroot issue command is never invoked and
\* the standalone attempt is entered.
C10_ProbeFailureFallsBack ==
    probeFailed => /\ ~webrootIssued
                   /\ pc = "sa_running" \/ saEntered
C10_Witness ==
    probeFailed /\ saEntered /\ pc = "ob_ret" /\ ores.success

StandalonePcs == {"sa_running", "sa_quit", "sa_pkill", "sa_issue", "sa_restart",
                  "sa_install", "sa_except"}

\* C11: within one obtain_certificate call the standalone attempt, and with
\* it every stop, kill or restart of nginx, comes only after the webroot
\* attempt of that call failed (probe failed or webroot issue exited
\* non-zero); after a webroot issue that exited zero the call never enters
\* the standalone attempt and runs no nginx command.
C11_WebrootFirst ==
    /\ (pc \in StandalonePcs \/ saEntered \/ nginxCmds \/ issue_rc # "none")
            => (probeFailed \/ wrRc = "fail")
    /\ wrRc = "ok" => (pc \notin StandalonePcs /\ ~saEntered /\ ~nginxCmds
                        /\ issue_rc = "none")
C11_Witness ==
    /\ pc = "ob_ret" /\ wrRc = "ok" /\ ores.success /\ nginxRunning
    /\ certs[odomain] = IssuedCert

\* C12: when the standalone issue command is about to be invoked, nginx is
\* not running.
C12_StoppedBeforeStandaloneIssue ==
    pc = "sa_issue" => ~nginxRunning

\* C13: obtain_certificate returns its "already exists and is valid"
\* success, without any issuance, only for a domain whose full chain and
\* private key are both present.
C13_PartialMaterialIsAbsent ==
    (pc = "ob_ret" /\ ores.success /\ ~webrootIssued /\ ~saEntered)
        => MaterialPresent(odomain)

RenewalChecked == cmd \in {"needs_renewal", "cert_needs_renewal"} /\ pc = "done"
CheckedCert == certs[args.domain]
ExpiryUndetermined(c) ==
    c.fullchain # "missing" /\ (c.fullchain = "empty" \/ c.enddate # "ok")

\* C14: for an existing full chain whose expiry cannot be determined
\* (openssl exits non-zero, prints no notAfter field, or prints a date that
\* does not parse) a needs-renewal check that returns, returns true.
C14_UnparsedExpiryNeedsRenewal ==
    (RenewalChecked /\ ExpiryUndetermined(CheckedCert) /\ decision # "raise")
        => decision = "true"

\* C15: for an existing certificate with a parsed expiry,
\* _certificate_needs_renewal returns true iff the whole days left are at
\* most the threshold: true at exactly the threshold, true for 10 days left
\* under threshold 30, false for 10 days left under threshold 5.
C15_InclusiveThreshold ==
    (/\ cmd = "needs_renewal" /\ pc = "done" /\ decision # "raise"
     /\ CheckedCert.fullchain = "ok" /\ CheckedCert.enddate = "ok")
        => /\ (decision = "true") <=> (CheckedCert.days <= threshold)
           /\ CheckedCert.days = threshold => decision = "true"
           /\ (CheckedCert.days = 10 /\ threshold = 30) => decision = "true"
           /\ (CheckedCert.days = 10 /\ threshold = 5) => decision = "false"
C15_Witness ==
    /\ cmd = "needs_renewal" /\ pc = "done"
    /\ CheckedCert.fullchain = "ok" /\ CheckedCert.enddate = "ok"
    /\ CheckedCert.days = threshold /\ threshold = 5 /\ decision = "true"

\* C16: for a domain whose certificate does not exist in the store (the full
\* chain or the private key is missing or empty) the needs-renewal check
\* returns true under every threshold and does not run openssl.
C16_AbsentNeedsRenewal ==
    (/\ RenewalChecked
     /\ (CheckedCert.fullchain # "ok" \/ CheckedCert.privkey # "ok"))
        => decision = "true" /\ ~consulted

\* the same for a missing full-chain file only
C16_MissingFullChain ==
    (RenewalChecked /\ CheckedCert.fullchain = "missing")
        => decision = "true" /\ ~consulted

\* C17: in a generate run or a check_and_issue_all_certs batch, from a state
\* in which every SSL domain of the vhosts has a complete certificate that
\* is not due, and while openssl can be run to read the expiry, no step
\* invokes the CA client or an nginx stop or start: the store and the web
\* server stay as they are and neither the obtain attempt nor the retry
\* loop is entered.
ValidCert(c) == c.fullchain = "ok" /\ c.privkey = "ok" /\ c.enddate = "ok"
                    /\ c.days > DaysThreshold
AllSslValid ==
    \A i \in 1..Len(vhosts) :
        (vhosts[i].ssl /\ vhosts[i].domains # <<>>) => ValidCert(certs[vhosts[i].domains[1]])
IssuancePcs == {"wr_probe", "wr_issue", "wr_install", "ic_try", "ic_sleep"} \cup StandalonePcs
C18_SecondRunIdentical ==
    (cmd = "generate_all_configs" /\ pass = 2 /\ pc = "ga_done") => confFiles = files1

\* the two runs leave the same files for the same vhost entries: they differ
\* in nothing but the generation time
Untimed(f) == [k \in SiteKeys |-> IF f[k] = <<>> THEN <<>> ELSE <<f[k][1].vhost>>]
SecondRunSameSites ==
    (cmd = "generate_all_configs" /\ pass = 2 /\ pc = "ga_done")
        => Untimed(confFiles) = Untimed(files1)

\* C19: issue_cert runs the issue command at most retry_attempts times, no
\* attempt and no delay follows a successful one, it returns true exactly
\* when an invocation succeeded and false only after retry_attempts failed
\* invocations, and the delays number one less than the invocations: one
\* between consecutive attempts, none after the last.
C19_IssueCertRetries ==
    cmd = "check_and_issue" =>
        /\ issueCalls <= retry_attempts
        /\ sleeps <= issueCalls
        /\ pc = "ic_sleep" => attempt < retry_attempts
        /\ pc \in {"ic_try", "ic_sleep"} => ~icOk
        /\ pc = "ic_ret" =>
            /\ ic_res \in {"true", "false"}
            /\ (ic_res = "true") <=> icOk
            /\ icOk => certs[ssl_domains[idx]] = IssuedCert
            /\ ic_res = "false" => issueCalls = retry_attempts
            /\ sleeps = issueCalls - 1
C19_Witness ==
    /\ cmd = "check_and_issue" /\ pc = "ic_ret"
    /\ retry_attempts = DefaultRetryAttempts
    /\ issueCalls = 2 /\ sleeps = 1 /\ ic_res = "true"


\* the acme.sh --issue invocations of the current obtain_certificate call
IssueInvocations ==
    (IF wrRc # "none" THEN 1 ELSE 0) + (IF issue_rc # "none" THEN 1 ELSE 0)

\* C20: in generate, when obtain_certificate returns a failure for a domain
\* whose webroot issuance exited non-zero, the CA client's issue command has
\* been invoked the configured number of attempts (3) for it; and a run that
\* ends with some domains obtained, some failed and the configuration test
\* passed has attempted exactly one reload.
C20_TransientFailureRetried ==
    cmd = "generate" =>
        /\ (pc = "ob_ret" /\ wrRc = "fail" /\ ~ores.success)
                => IssueInvocations = DefaultRetryAttempts
        /\ (pc = "done" /\ testRes = "ok" /\ ssl_success > 0 /\ failedNow # {})
                => reloadCmds = 1


\* C21: an obtain_certificate or renew_certificate call that reports success
\* after its issue or renew command succeeded has run the install command for
\* the domain and the install succeeded, so the store holds the material; a
\* call whose install failed or raised reports failure.
C21_InstallBeforeSuccess ==
    /\ (pc = "ob_ret" /\ ores.success /\ (wrRc = "ok" \/ issue_rc = "ok"))
            => (installRc = "ok" /\ MaterialPresent(odomain))
    /\ (pc = "ob_ret" /\ installRc \in {"fail", "raise"}) => ~ores.success
    /\ (cmd = "renew_certificates" /\ pc = "rn_ret") =>
            /\ rn_res = "renewed" => (renewRc = "ok" /\ installRc = "ok"
                                        /\ MaterialPresent(odomain))
            /\ renewRc = "ok" => installRc # "none"
            /\ installRc \in {"fail", "raise"} => rn_res = "failure"
C21_Witness ==
    /\ cmd = "renew_certificates" /\ pc = "rn_ret"
    /\ renewRc = "ok" /\ installRc = "fail" /\ rn_res = "failure"

\* C22: when renew_certificate returns, a 'skip' answer of acme.sh has given
\* success with renewed False and no install; without force, a certificate
\* the check found not due has given the same result with acme.sh never
\* invoked; with force, acme.sh --renew was invoked and carried --force.
C22_SkipIsNotAnError ==
    /\ []((cmd = "renew_certificates" /\ pc = "rn_ret") =>
            /\ renewRc = "skip" => (rn_res = "not_renewed" /\ installRc = "none")
            /\ renewRc = "none" => installRc = "none"
            /\ args.force => (renewRc # "none" /\ renewForce = "yes")
            /\ ~args.force => renewForce # "yes")
    /\ [][(/\ cmd = "renew_certificates" /\ pc = "rn_check" /\ ~args.force
           /\ ~certificate_needs_renewal(certs[odomain], DaysThreshold)
           /\ rnOpenssl' # "raise")
            => (pc' = "rn_ret" /\ rn_res' = "not_renewed" /\ renewRc' = "none")]_vars
C22_Witness ==
    /\ cmd = "renew_certificates" /\ pc = "rn_ret"
    /\ args.force /\ renewRc = "skip" /\ rn_res = "not_renewed"
    /\ ValidCert(certs[odomain])


\* C23: when remove_certificate returns for a domain that has no certificate
\* material, it returns success; and when it returns for the second time
\* after a first call that succeeded, it returns success again and the store
\* is as the first call left it, with no material for the domain.
C23_RemoveIdempotent ==
    (cmd = "remove_certificate" /\ pc = "rm_ret") =>
        /\ certs[args.domain] = AbsentCert => rm_res = "success"
        /\ (pass = 2 /\ res1 = "success")
            => (rm_res = "success" /\ certs = certs1 /\ certs[args.domain] = AbsentCert)

\* C24: when remove_certificate returns after a deregistration that exited
\* non-zero, found no acme.sh or raised, it returns success and the domain's
\* certificate directory is gone.
C24_DeregistrationBestEffort ==
    (cmd \in {"remove_certificate", "remove_site"} /\ pc = "rm_ret"
        /\ deregRc \in {"fail", "notfound", "raise"})
        => (rm_res = "success" /\ certs[args.domain] = AbsentCert)


\* C25: when reload_nginx returns, the commands it ran are the first ridx of
\* the list, each once and in order; it returned success at the first exit 0
\* and failure only after all three commands had been tried.
C25_ReloadInOrder ==
    pc = "rl_ret" =>
        /\ rres \in {"ok", "fail"}
        /\ reloadCmds = ridx
        /\ rres = "fail" => ridx = Len(ReloadCommands)

\* C26: when reload_nginx returns a failure after all three commands failed,
\* its error names every command that was attempted.
C26_ErrorNamesAllCommands ==
    (pc = "rl_ret" /\ rres = "fail" /\ ridx = Len(ReloadCommands) /\ rerr # ErrStr)
        => \A i \in 1..Len(ReloadCommands) : ReloadCommands[i] \in Range(rerr)


\* C27: when reload_nginx has failed inside add_site, remove_site or
\* renew_certificates, the call's result carries the failure (the result is
\* a failure, or for renew_certificates over every site its errors name the
\* reload); and no step of the reload or of the return from it stops, kills
\* or starts nginx or changes a configuration file or the certificate store.
ReloadCallers == {"add_site", "remove_site", "renew_certificates"}
C27_ReloadFailureSurfaced ==
    /\ []((cmd \in ReloadCallers /\ pc = "done" /\ rres = "fail") =>
            IF cmd = "renew_certificates" /\ args.domain = <<>>
               THEN \E i \in 1..Len(ssl_errors) : ssl_errors[i] = ErrNginxReload \o rerr
               ELSE report = "failure")
    /\ [][(cmd \in ReloadCallers /\ pc \in {"rl_cmd", "rl_ret"})
            => (/\ nginxRunning' = nginxRunning /\ nginxCmds' = nginxCmds
                /\ siteFiles' = siteFiles /\ certs' = certs)]_vars
C27_Witness ==
    /\ cmd = "add_site" /\ pc = "done" /\ rres = "fail" /\ ridx = Len(ReloadCommands)
    /\ nginxRunning
    /\ siteFiles[args.domain] = generate_site_config(args.domain, args.backend, args.ssl)


\* C28: an add_site call with ssl whose certificate could not be obtained
\* ends with a success result and the site's configuration file in place.
C28_SslFailureStillSucceeds ==
    (cmd = "add_site" /\ pc = "done" /\ args.ssl /\ args.domain \in failedNow)
        => (report = "success" /\ siteFiles[args.domain] # NoFile)

\* C29: an add_site call without force for a domain whose configuration file
\* exists returns a failure in one step that writes no file, starts no
\* certificate operation, runs no configuration test and no reload.
C29_ExistingSiteRefused ==
    [][(cmd = "add_site" /\ pc = "a_start" /\ siteFiles[args.domain] # NoFile /\ ~args.force)
        => (/\ pc' = "done" /\ report' = "failure"
            /\ siteFiles' = siteFiles /\ written' = written
            /\ certs' = certs /\ attempted' = attempted /\ nginxRunning' = nginxRunning
            /\ testRes' = testRes /\ reloadCmds' = reloadCmds)]_vars
C29_Witness ==
    /\ cmd = "add_site" /\ pc = "done" /\ report = "failure"
    /\ ~args.force /\ siteFiles[args.domain] # NoFile
    /\ written = {} /\ attempted = <<>> /\ testRes = "none" /\ reloadCmds = 0


\* C30: in the entrypoint's cleanup the forced kill is issued only after the
\* graceful quit was requested and the whole grace period was waited, at most
\* 30 polls are slept, and when a cleanup that requested the quit has
\* finished nginx is not running and the process has exited.
C30_GracefulThenForcedStop ==
    cmd = "cleanup" =>
        /\ timeout \in 0..GracePeriod
        /\ killRc # "none" => (quitRc \in {"ok", "fail"} /\ timeout = 0)
        /\ (pc = "done" /\ quitRc # "none") => (~nginxRunning /\ report = "success")

\* C33: in check_and_issue_all_certs a domain whose issuance has failed after
\* all its attempts does not end the batch: the loop goes on to the next
\* domain, and a batch that returns has looked at every SSL domain.  The batch
\* answers True exactly when no domain's issuance failed, and then every SSL
\* domain has a complete certificate that is not due.
BatchReturned == cmd = "check_and_issue" /\ pc = "done" /\ ic_res # "raise"
RenewAll == cmd = "renew_certificates" /\ args.domain = <<>>
C37_RenewAllThenOneReload ==
    /\ [][(RenewAll /\ pc # "rl_cmd" /\ pc' = "rl_cmd")
            => (attempted = ssl_domains /\ ssl_success > 0 /\ rres = "none")]_vars
    /\ [][(RenewAll /\ pc \in {"rl_cmd", "rl_ret"})
            => (pc' \in {"rl_cmd", "rl_ret", "done"} /\ attempted' = attempted)]_vars
    /\ []((RenewAll /\ pc = "done")
            => /\ attempted = ssl_domains
               /\ Range(ssl_domains) = ssl_sites
               /\ (rres # "none") <=> (ssl_success > 0))
C37_Witness ==
    /\ RenewAll /\ pc = "done"
    /\ Len(attempted) = 2
    /\ failedNow = {attempted[1]}
    /\ ssl_success = 1
    /\ rres = "ok"
    /\ reloadCmds = 1

\* C32: in generate_all_configs a malformed vhost entry (no name, no domains,
\* a proxy without upstream) is skipped: the batch does not end with an
\* exception, and every well-formed entry has its file when the batch is over.
C32_MalformedSkipped ==
    (cmd = "generate_all_configs" /\ pc = "ga_done" /\ vhosts # <<>>)
        => /\ report # "raise"
           /\ \A i \in 1..Len(vhosts) :
                validate_vhost(vhosts[i]) => confFiles[vhosts[i].name] # <<>>

\* C36: when add_site fails at the certificate step or at the configuration
\* test, the site's configuration file is as it was before the call: absent
\* if there was none, with its previous content if it was being overwritten.
C36_FileRestoredOnFailure ==
    (/\ cmd = "add_site" /\ pc = "done" /\ report = "failure"
     /\ written # {}
     /\ (failedNow # {} \/ testRes \in {"fail", "raise"}))
        => siteFiles[args.domain] = file0

\* C35: during add_site with ssl=True, whenever nginx is about to be started
\* again (after the standalone challenge, or by its handler) or reloaded, no
\* site configuration file on disk enables SSL for a domain that has no
\* certificate in the store.
NginxStartPcs == {"sa_restart", "rl_cmd"}
SslFileWithoutCert(d) ==
    /\ siteFiles[d] # NoFile /\ siteFiles[d].ssl
    /\ ~certificate_exists(certs[d])
C35_NoSslConfigWithoutCert ==
    (/\ cmd = "add_site" /\ args.ssl
     /\ \/ pc \in NginxStartPcs
        \/ (pc = "sa_except" /\ nginx_was_running = "yes"))
        => \A d \in Domains : ~SslFileWithoutCert(d)

\* C38: the renew command calls renew_certificates exactly once, with a
\* domain and without one, and its exit status is zero exactly when the
\* result of that call reports success.
C38_RenewCommandOnce ==
    (cli = "renew" /\ pc = "exited")
        => /\ rcCalls = 1
           /\ (exitCode = 0) <=> (report = "success")

\* C31: once the entrypoint's teardown has begun it runs to completion
\* exactly once per shutdown: neither a further signal nor run's finally
\* clause starts a second stop sequence, and no stop sequence that was
\* interrupted is abandoned where it stood.
TeardownAbandoned ==
    pc = "done" /\ \E i \in 1..Len(frames) : frames[i] \in CleanupPcs
C31_TeardownOnce ==
    (epc # "none")
        => /\ started <= 1
           /\ ~TeardownAbandoned
           /\ (epc = "exited" => finished = 1)

\* C39: while no shutdown is requested, the main loop goes from its check to
\* its wait without a start attempt only when it saw nginx running, and from
\* a start attempt to its wait only when nginx was started; the loop is left
\* only when shutdown is requested or a start attempt failed, leaving it
\* enters the teardown at once, and once shutdown is requested the main
\* thread is never in the loop again, so the loop starts nginx no more.
C39_MainLoopKeepsNginxUp ==
    /\ [][(epc = "try" /\ pc = "ml_check" /\ pc' = "ml_wait") => nginxRunning]_vars
    /\ [][(epc = "try" /\ pc = "ml_start" /\ pc' = "ml_wait") => nginxRunning']_vars
    /\ [][(epc = "try" /\ epc' = "finally")
            => /\ shutdown_event \/ pc = "ml_break"
               /\ pc' = "cl_start" /\ started' = started + 1]_vars
    /\ [](shutdown_event => pc \notin MainLoopPcs)
C39_Witness ==
    /\ epc = "finally" /\ pc = "cl_start"
    /\ ~shutdown_event /\ ~nginxRunning
    /\ started = 1 /\ frames = <<>>

\* C34: when a regeneration started by the file watch overlaps another one
\* while vhosts.yml changes, then after all of them have finished the
\* generated files, as a set and in content, are those of a single run on
\* the latest vhosts.yml.
SingleRun(vs) ==
    [k \in SiteKeys |->
        IF \E i \in 1..Len(vs) : vs[i].name = k
           THEN <<vhost_conf_j2(vs[CHOOSE i \in 1..Len(vs) : vs[i].name = k], clock)>>
           ELSE <<>>]
AllRunsDone ==
    /\ cmd = "regenerate"
    /\ \A p \in RegenRuns : runs[p].pc = "done"
    /\ \E p \in RegenRuns : runs[p].vhosts = vhosts
C34_OverlappingRunsConverge == AllRunsDone => confFiles = SingleRun(vhosts)

====
